---- MODULE Spec2Model ----
(***************************************************************************)
(* Skadi decision engine: the MMS hysteresis filter (mms/filter.py) and    *)
(* the fast / slow control loops with their candidate policy and           *)
(* guardrails (optimizer/*.py).                                            *)
(*                                                                         *)
(* Numbers.  The program computes in binary floating point.  The model     *)
(* keeps every quantity as an integer count of a fixed unit:               *)
(*   deviations, EMA, thresholds, alpha     1/1000                         *)
(*   temperatures (degC)                    1/100                          *)
(*   latencies (ms)                         1/10                           *)
(*   savings (%), risk                      1/100                          *)
(*   composite rank score                   1/100000                       *)
(*   time                                   seconds                        *)
(* Products of two scaled quantities are rounded to the nearest unit, as   *)
(* the float operation rounds to the nearest representable value.          *)
(***************************************************************************)
EXTENDS Integers, Sequences, FiniteSets, TLC

VARIABLES
    \* ---- MMSFilter instance (mms/filter.py)
    alpha, persist_ticks, tau_fast, tau_persist,
    ema, state, consecutive_high, consecutive_low, history,
    update_result,      \* what the last update() returned (None before any)
    n_updates,          \* number of update() calls made so far
    trace,              \* per thresholded update: the EMA it computed and
                        \* the thresholds then in force
    \* ---- one loop controller instance (optimizer/fast_loop.py, slow_loop.py)
    loop,               \* which class the instance is: "fast" | "slow"
    last_action_ts,     \* self.last_action_ts: key -> timestamp
    global_kill_switch, \* settings.global_kill_switch
    now,                \* datetime.utcnow(), seconds
    n_ticks,            \* number of clock advances so far
    current_state,      \* the snapshot the caller holds for its next call
    proposal,           \* what the last evaluate()/optimize() call returned
    returned_at,        \* the return statement that call left through
    issued_at,          \* key -> time the last proposal for it was returned
    gap,                \* of the proposal just returned: the time since the
                        \* previous proposal for its key (None if there is none)
    \* ---- _apply_guardrails as a function of its arguments
    g_candidates, g_state, g_safe,
    \* ---- ActionPolicy.rank_candidates as a function of its arguments
    r_input,            \* the list as the caller built it
    r_candidates,       \* the caller's list object, as it is now
    r_weights,          \* the weights argument (None: the default)
    r_ranked,           \* what the last call returned (None before any)
    r_prev,             \* what the call before it returned
    r_calls,            \* number of calls made so far
    \* ---- IMSTrainer / IMSScorer (ims/train.py, ims/score.py)
    ims_tau_fast_percentile,    \* settings.ims_tau_fast_percentile
    ims_tau_persist_percentile, \* settings.ims_tau_persist_percentile
    t_scaler,           \* trainer.scaler: None until fitted, else the fitted
                        \* row count and column sums
    t_kmeans,           \* trainer.kmeans: None until fitted, else its centers
    t_tau_fast,         \* trainer.tau_fast
    t_tau_persist,      \* trainer.tau_persist
    t_trained,          \* number of train() calls that returned
    t_raised,           \* what the last trainer / scorer call raised ("" if nothing)
    t_n_samples,        \* len(nominal_df) of the last call if it was train()
    scorer,             \* the IMSScorer constructed last (None if none was);
                        \* it refers to the trainer
    s_samples,          \* the list last passed to score_batch
    s_batch,            \* what score_batch returned for it
    s_single,           \* what score_sample returns for each of its samples
    \* application lifespan and its background tasks (api/app.py)
    life_pc,            \* lifespan: "serving", "shutdown" (after the yield), "stopped"
    life_next,          \* index in TaskOrder of the task the shutdown loop is at
    task_pc,            \* per task: the await it is suspended at, or "done"
    task_must_cancel,   \* per task: task.cancel() was called and not yet delivered
    task_ticks,         \* per task: iterations of its loop that got past the sleep
    task_issued,        \* per task: proposals evaluate() / optimize() returned
    task_handed,        \* per task: proposals whose broadcast_event returned
    ws_to_send,         \* per task: connections its running broadcast has yet to send to
    active_connections, \* number of connected WebSocket clients
    \* the ims_model table and the train_ims handlers (api/routes_ims.py)
    db_models,          \* committed rows: records [model_id, is_active]
    h_pc,               \* per handler: "idle", then the await it is suspended at
                        \* ("execute", "commit"), then "returned" or "failed"
    h_model_id,         \* per handler: the model_id of the row it built
    h_old,              \* per handler: model_ids of the rows its select returned
    reader_seen,        \* what the last load of the active model found
    \* POST /actions/apply and the executors (api/routes_actions.py,
    \* optimizer/executors); settings.global_kill_switch and the clock are
    \* global_kill_switch and now above
    default_mode,       \* settings.default_mode
    scheduler_executor, \* the SchedulerExecutor instance, a record of its fields
    bms_executor,       \* the BMSExecutor instance, a record of its fields
    executor_calls,     \* number of executor operations invoked so far
    audit,              \* the optimizer_actions rows, oldest first
    response,           \* what the last apply_action returned or raised
    \* one controller task running its instance above (api/app.py 89-154)
    tick_pc,            \* the await the task is suspended at
    tick_map_before,    \* last_action_ts as it was when the tick began
    tick_caught,        \* what the tick's `except Exception` caught ("" if nothing)
    iter_used,          \* broadcast's set iterator: len(active_connections)
                        \* when `for connection in ...` began
    iter_left,          \* connections the iterator has yet to yield
    \* the caller of the filter above (viz/dashboard.py 772-806: one update
    \* per score)
    feed,               \* what it feeds: "any" deviation, or from now on only
                        \* "high" ones (above tau_persist) or only "low" ones (below tau_fast)
    feed_from           \* n_updates when it began to feed only high / low ones

filter_vars == <<alpha, persist_ticks, tau_fast, tau_persist, ema, state,
                 consecutive_high, consecutive_low, history, update_result,
                 n_updates, trace>>
loop_vars == <<loop, last_action_ts, global_kill_switch, now, n_ticks,
               current_state, proposal, returned_at, issued_at, gap>>
guard_vars == <<g_candidates, g_state, g_safe>>
rank_vars == <<r_input, r_candidates, r_weights, r_ranked, r_prev, r_calls>>
trainer_vars == <<t_scaler, t_kmeans, t_tau_fast, t_tau_persist>>
ims_vars == <<ims_tau_fast_percentile, ims_tau_persist_percentile, trainer_vars,
              t_trained, t_raised, t_n_samples, scorer, s_samples, s_batch, s_single>>
\* the variables of the components other than filter, loops and guardrails
life_vars == <<life_pc, life_next, task_pc, task_must_cancel, task_ticks, task_issued,
               task_handed, ws_to_send, active_connections>>
db_vars == <<db_models, h_pc, h_model_id, h_old, reader_seen>>
act_vars == <<default_mode, scheduler_executor, bms_executor, executor_calls, audit,
              response>>
tick_vars == <<tick_pc, tick_map_before, tick_caught, iter_used, iter_left>>
feed_vars == <<feed, feed_from>>
app_vars == <<life_vars, db_vars, act_vars, tick_vars, feed_vars>>
ext_vars == <<rank_vars, ims_vars, app_vars>>
vars == <<filter_vars, loop_vars, guard_vars, ext_vars>>

\* Python's None / an Optional value
None == <<>>
Some(x) == <<x>>
Val(o) == o[1]

\* the unit of deviations, EMA, thresholds and alpha: 1000 units = 1.0
Milli == 10 * 10 * 10

-----------------------------------------------------------------------------
\* Settings defaults (core/config.py)
mms_ema_alpha == 300
mms_persist_ticks == 6
\* deque(maxlen=100)
HistoryMaxLen == 100

-----------------------------------------------------------------------------
\* MMSFilter

\* nearest unit of x / Milli, x >= 0
RoundMilli(x) == (x + (Milli \div 2)) \div Milli

\* filter.py 69-72: the EMA after one update
NextEmaFirstOnly(a, e, d) == IF e = 0 THEN d ELSE e
NextEma(a, e, d) ==
    IF e = 0 THEN d ELSE RoundMilli(a * d + (Milli - a) * e)

\* filter.py 75-83: the counters after the EMA step
NextHighNoReset(e, tp, ch) == IF e > tp THEN ch + 1 ELSE ch
NextHigh(e, tp, ch) == IF e > tp THEN ch + 1 ELSE 0

NextLow(e, tf, tp, cl) ==
    IF e > tp THEN 0 ELSE IF e < tf THEN cl + 1 ELSE 0

\* filter.py 86-95: the hysteresis transition
NextStateEarly(st, ch, cl, pt) ==
    IF st = "transient"
    THEN (IF ch >= pt - 1 THEN "persistent" ELSE "transient")
    ELSE (IF cl >= pt THEN "transient" ELSE "persistent")
NextStateNoHold(st, ch, cl, pt) ==
    IF st = "transient"
    THEN (IF ch >= pt THEN "persistent" ELSE "transient")
    ELSE (IF ch >= pt THEN "persistent" ELSE "transient")
NextState(st, ch, cl, pt) ==
    IF st = "transient"
    THEN (IF ch >= pt THEN "persistent" ELSE "transient")
    ELSE (IF cl >= pt THEN "transient" ELSE "persistent")

\* deque.append with maxlen
DequeAppend(q, x) ==
    IF Len(q) >= HistoryMaxLen THEN Append(Tail(q), x) ELSE Append(q, x)

\* MMSFilter.__init__; an argument of None (or a falsy 0) takes the default
MMSFilterInit(a, pt, tf, tp) ==
    /\ alpha = (IF a = None \/ a = Some(0) THEN mms_ema_alpha ELSE Val(a))
    /\ persist_ticks =
          (IF pt = None \/ pt = Some(0) THEN mms_persist_ticks ELSE Val(pt))
    /\ tau_fast = tf
    /\ tau_persist = tp
    /\ ema = 0
    /\ state = "transient"
    /\ consecutive_high = 0
    /\ consecutive_low = 0
    /\ history = <<>>
    /\ update_result = None
    /\ n_updates = 0
    /\ trace = <<>>

\* MMSFilter.update_thresholds
UpdateThresholdsResetting(tf, tp) ==
    /\ tau_fast' = Some(tf)
    /\ tau_persist' = Some(tp)
    /\ ema' = 0
    /\ state' = "transient"
    /\ consecutive_high' = 0
    /\ consecutive_low' = 0
    /\ history' = <<>>
    /\ UNCHANGED <<alpha, persist_ticks, update_result, n_updates, trace>>
UpdateThresholds(tf, tp) ==
    /\ tau_fast' = Some(tf)
    /\ tau_persist' = Some(tp)
    /\ UNCHANGED <<alpha, persist_ticks, ema, state, consecutive_high,
                   consecutive_low, history, update_result, n_updates, trace>>

\* MMSFilter.update_thresholds called with the thresholds of a trainer that may
\* be untrained (None): both fields are assigned before the log line formats
\* them
UpdateThresholdsFrom(trainer_tau_fast, trainer_tau_persist) ==
    /\ tau_fast' = trainer_tau_fast
    /\ tau_persist' = trainer_tau_persist
    /\ UNCHANGED <<alpha, persist_ticks, ema, state, consecutive_high,
                   consecutive_low, history, update_result, n_updates, trace>>

\* MMSFilter.update
UpdateUnsetStores(deviation) ==
    /\ n_updates' = n_updates + 1
    /\ IF tau_fast = None \/ tau_persist = None
       THEN /\ update_result' = Some([ema |-> deviation, state |-> "transient",
                                      raw_deviation |-> deviation])
            /\ ema' = deviation
            /\ UNCHANGED <<state, consecutive_high, consecutive_low,
                           history, trace>>
       ELSE LET e == NextEma(alpha, ema, deviation)
                ch == NextHigh(e, Val(tau_persist), consecutive_high)
                cl == NextLow(e, Val(tau_fast), Val(tau_persist), consecutive_low)
                st == NextState(state, ch, cl, persist_ticks)
                result == [ema |-> e, state |-> st, raw_deviation |-> deviation,
                           consecutive_high |-> ch, consecutive_low |-> cl]
            IN  /\ ema' = e
                /\ consecutive_high' = ch
                /\ consecutive_low' = cl
                /\ state' = st
                /\ history' = DequeAppend(history, result)
                /\ update_result' = Some(result)
                /\ trace' = Append(trace, [ema |-> e, tau_fast |-> Val(tau_fast),
                                            tau_persist |-> Val(tau_persist)])
    /\ UNCHANGED <<alpha, persist_ticks, tau_fast, tau_persist>>
Update(deviation) ==
    /\ n_updates' = n_updates + 1
    /\ IF tau_fast = None \/ tau_persist = None
       THEN /\ update_result' = Some([ema |-> deviation, state |-> "transient",
                                      raw_deviation |-> deviation])
            /\ UNCHANGED <<ema, state, consecutive_high, consecutive_low,
                           history, trace>>
       ELSE LET e == NextEma(alpha, ema, deviation)
                ch == NextHigh(e, Val(tau_persist), consecutive_high)
                cl == NextLow(e, Val(tau_fast), Val(tau_persist), consecutive_low)
                st == NextState(state, ch, cl, persist_ticks)
                result == [ema |-> e, state |-> st, raw_deviation |-> deviation,
                           consecutive_high |-> ch, consecutive_low |-> cl]
            IN  /\ ema' = e
                /\ consecutive_high' = ch
                /\ consecutive_low' = cl
                /\ state' = st
                /\ history' = DequeAppend(history, result)
                /\ update_result' = Some(result)
                /\ trace' = Append(trace, [ema |-> e, tau_fast |-> Val(tau_fast),
                                            tau_persist |-> Val(tau_persist)])
    /\ UNCHANGED <<alpha, persist_ticks, tau_fast, tau_persist>>

\* MMSFilter.reset
ResetKeepsCounters ==
    /\ ema' = 0
    /\ state' = "transient"
    /\ history' = <<>>
    /\ UNCHANGED <<alpha, persist_ticks, tau_fast, tau_persist, update_result,
                   n_updates, trace, consecutive_high, consecutive_low>>
Reset ==
    /\ ema' = 0
    /\ state' = "transient"
    /\ consecutive_high' = 0
    /\ consecutive_low' = 0
    /\ history' = <<>>
    /\ UNCHANGED <<alpha, persist_ticks, tau_fast, tau_persist, update_result,
                   n_updates, trace>>

-----------------------------------------------------------------------------
\* Settings defaults (core/config.py), in the model's units
inlet_max_c == 2800
sla_latency_ms == 2500
write_rate_limit_s == 120
\* fast_loop.py 77: the fast loop's window, seconds
FastRateLimit == 60

\* dict.get(key, default)
Get(d, k, default) == IF k \in DOMAIN d THEN d[k] ELSE default

Abs(x) == IF x < 0 THEN -x ELSE x

-----------------------------------------------------------------------------
\* ActionPolicy (optimizer/policies.py)

\* ACTION_TYPES parameter lists (policies.py 26-51); temperatures in 1/100 degC
BatchDeltaMs == <<20, 30, 40>>
FanDeltaPct == <<-3, -4, -5>>
SupplyDeltaC == <<50, 100>>
TrafficPct == <<10, 15, 20, 25>>
PausePriority == <<3, 4>>
PumpDeltaPct == <<3, 5>>

BatchCandidate(delta) ==
    [action |-> "increase_batch_window", params |-> [delta_ms |-> delta],
     target |-> "system", pred_saving_pct |-> delta * 20,
     pred_latency_impact_ms |-> delta * 4, pred_inlet_change_c |-> 10,
     risk_score |-> 20, reason |-> <<"Increase batch window by {delta}ms to improve throughput efficiency">>]

FanCandidate(delta_pct) ==
    [action |-> "decrease_fan_rpm", params |-> [delta_pct |-> delta_pct],
     target |-> "system", pred_saving_pct |-> Abs(delta_pct) * 120,
     pred_latency_impact_ms |-> 0, pred_inlet_change_c |-> Abs(delta_pct) * 15,
     risk_score |-> 30, reason |-> <<"Reduce fan RPM by {abs(delta_pct)}% (safe thermal margin)">>]

SupplyCandidate(delta_c) ==
    [action |-> "increase_supply_temp", params |-> [delta_c |-> delta_c],
     target |-> "system", pred_saving_pct |-> delta_c * 4,
     pred_latency_impact_ms |-> 0, pred_inlet_change_c |-> delta_c,
     risk_score |-> 40, reason |-> <<"Raise supply temp by {delta_c}C to save chiller energy">>]

TrafficCandidate(traffic_pct, cool_racks) ==
    [action |-> "shift_traffic_to_cool_row",
     params |-> [traffic_pct |-> traffic_pct,
                 target_racks |-> SubSeq(cool_racks, 1,
                                    IF Len(cool_racks) < 3 THEN Len(cool_racks) ELSE 3)],
     target |-> "routing", pred_saving_pct |-> traffic_pct * 15,
     pred_latency_impact_ms |-> 50, pred_inlet_change_c |-> -30,
     risk_score |-> 25, reason |-> <<"Shift {traffic_pct}% traffic to cooler racks to balance thermal load">>]

PauseCandidate(priority_thresh) ==
    [action |-> "pause_low_priority_jobs",
     params |-> [priority_threshold |-> priority_thresh, max_pause_pct |-> 10],
     target |-> "scheduler", pred_saving_pct |-> 800,
     pred_latency_impact_ms |-> -200, pred_inlet_change_c |-> -150,
     risk_score |-> 70, reason |-> <<"Pause priority>={priority_thresh} jobs to reduce thermal stress">>]

PumpCandidate(delta_pct) ==
    [action |-> "increase_cdu_pump", params |-> [delta_pct |-> delta_pct],
     target |-> "cooling", pred_saving_pct |-> -(delta_pct * 50),
     pred_latency_impact_ms |-> 0, pred_inlet_change_c |-> -40,
     risk_score |-> 35, reason |-> <<"Increase pump {delta_pct}% to improve coolant circulation">>]

\* the racks of rack_temperatures (a sequence of <<rack, temperature>>, in the
\* dict's order) colder than avg_inlet_c - 1.0
CoolRacks(rack_temps, avg_inlet_c) ==
    LET cool == SelectSeq(rack_temps, LAMBDA rt : rt[2] < avg_inlet_c - 100)
    IN  [i \in 1..Len(cool) |-> cool[i][1]]

\* ActionPolicy.generate_candidates
GenerateCandidatesLateBatch(s, objective) ==
    LET avg_inlet_c == Get(s, "avg_inlet_c", 2200)
        max_inlet_c == Get(s, "max_inlet_c", 2600)
        avg_latency_ms == Get(s, "avg_latency_ms", 1800)
        deviation == Get(s, "ims_deviation", 0)
        mms_state == Get(s, "mms_state", "transient")
        inlet_margin_c == inlet_max_c - max_inlet_c
        batch ==
            IF avg_latency_ms * 100 < sla_latency_ms * 95
            THEN LET ok == SelectSeq(BatchDeltaMs,
                             LAMBDA d : avg_latency_ms + d * 4 < sla_latency_ms)
                 IN  [i \in 1..Len(ok) |-> BatchCandidate(ok[i])]
            ELSE <<>>
        fan ==
            IF inlet_margin_c > 200
            THEN LET ok == SelectSeq(FanDeltaPct,
                             LAMBDA d : max_inlet_c + Abs(d) * 15 < inlet_max_c)
                 IN  [i \in 1..Len(ok) |-> FanCandidate(ok[i])]
            ELSE <<>>
        supply ==
            IF inlet_margin_c > 300
            THEN LET ok == SelectSeq(SupplyDeltaC,
                             LAMBDA d : avg_inlet_c + d < inlet_max_c - 100)
                 IN  [i \in 1..Len(ok) |-> SupplyCandidate(ok[i])]
            ELSE <<>>
        traffic ==
            IF deviation > 500 \/ mms_state = "persistent"
            THEN LET rack_temps == Get(s, "rack_temperatures", <<>>)
                     cool_racks == CoolRacks(rack_temps, avg_inlet_c)
                 IN  IF Len(rack_temps) > 0 /\ Len(cool_racks) > 0
                     THEN [i \in 1..Len(TrafficPct) |->
                              TrafficCandidate(TrafficPct[i], cool_racks)]
                     ELSE <<>>
            ELSE <<>>
        pause ==
            IF mms_state = "persistent"
            THEN [i \in 1..Len(PausePriority) |-> PauseCandidate(PausePriority[i])]
            ELSE <<>>
        pump ==
            IF max_inlet_c > inlet_max_c - 100
            THEN [i \in 1..Len(PumpDeltaPct) |-> PumpCandidate(PumpDeltaPct[i])]
            ELSE <<>>
    IN  batch \o fan \o supply \o traffic \o pause \o pump
GenerateCandidates(s, objective) ==
    LET avg_inlet_c == Get(s, "avg_inlet_c", 2200)
        max_inlet_c == Get(s, "max_inlet_c", 2600)
        avg_latency_ms == Get(s, "avg_latency_ms", 1800)
        deviation == Get(s, "ims_deviation", 0)
        mms_state == Get(s, "mms_state", "transient")
        inlet_margin_c == inlet_max_c - max_inlet_c
        batch ==
            IF avg_latency_ms * 100 < sla_latency_ms * 85
            THEN LET ok == SelectSeq(BatchDeltaMs,
                             LAMBDA d : avg_latency_ms + d * 4 < sla_latency_ms)
                 IN  [i \in 1..Len(ok) |-> BatchCandidate(ok[i])]
            ELSE <<>>
        fan ==
            IF inlet_margin_c > 200
            THEN LET ok == SelectSeq(FanDeltaPct,
                             LAMBDA d : max_inlet_c + Abs(d) * 15 < inlet_max_c)
                 IN  [i \in 1..Len(ok) |-> FanCandidate(ok[i])]
            ELSE <<>>
        supply ==
            IF inlet_margin_c > 300
            THEN LET ok == SelectSeq(SupplyDeltaC,
                             LAMBDA d : avg_inlet_c + d < inlet_max_c - 100)
                 IN  [i \in 1..Len(ok) |-> SupplyCandidate(ok[i])]
            ELSE <<>>
        traffic ==
            IF deviation > 500 \/ mms_state = "persistent"
            THEN LET rack_temps == Get(s, "rack_temperatures", <<>>)
                     cool_racks == CoolRacks(rack_temps, avg_inlet_c)
                 IN  IF Len(rack_temps) > 0 /\ Len(cool_racks) > 0
                     THEN [i \in 1..Len(TrafficPct) |->
                              TrafficCandidate(TrafficPct[i], cool_racks)]
                     ELSE <<>>
            ELSE <<>>
        pause ==
            IF mms_state = "persistent"
            THEN [i \in 1..Len(PausePriority) |-> PauseCandidate(PausePriority[i])]
            ELSE <<>>
        pump ==
            IF max_inlet_c > inlet_max_c - 100
            THEN [i \in 1..Len(PumpDeltaPct) |-> PumpCandidate(PumpDeltaPct[i])]
            ELSE <<>>
    IN  batch \o fan \o supply \o traffic \o pause \o pump

\* rank_candidates' default weights (policies.py 195-200), in tenths
DefaultWeightsRiskAdded == [saving_pct |-> 10, risk_score |-> 8, latency_impact |-> -3]
DefaultWeights == [saving_pct |-> 10, risk_score |-> -8, latency_impact |-> -3]

\* policies.py 203-207: the composite score, in 1/100000
Score(c, weights) ==
    weights.saving_pct * c.pred_saving_pct * 100
    + weights.risk_score * c.risk_score * 100
    + weights.latency_impact * Abs(c.pred_latency_impact_ms) * 10

\* sorted(..., key=score, reverse=True): stable, descending.  x goes after
\* every element of the sorted prefix whose score is not smaller.
RECURSIVE InsertByScoreBeforeEqual(_, _)
InsertByScoreBeforeEqual(sorted, x) ==
    IF sorted = <<>> THEN <<x>>
    ELSE IF Head(sorted).score > x.score
         THEN <<Head(sorted)>> \o InsertByScoreBeforeEqual(Tail(sorted), x)
         ELSE <<x>> \o sorted

RECURSIVE InsertByScore(_, _)
InsertByScore(sorted, x) ==
    IF sorted = <<>> THEN <<x>>
    ELSE IF Head(sorted).score >= x.score
         THEN <<Head(sorted)>> \o InsertByScore(Tail(sorted), x)
         ELSE <<x>> \o sorted

RECURSIVE SortedByScore(_)
SortedByScore(cs) ==
    IF cs = <<>> THEN <<>>
    ELSE InsertByScore(SortedByScore(SubSeq(cs, 1, Len(cs) - 1)), cs[Len(cs)])

\* policies.py 202-208: `candidate.score = score` on every object of the
\* list, in place; the list keeps its order
WithScores(candidates, w) ==
    [i \in 1..Len(candidates) |->
        [action |-> candidates[i].action,
         params |-> candidates[i].params,
         target |-> candidates[i].target,
         pred_saving_pct |-> candidates[i].pred_saving_pct,
         pred_latency_impact_ms |-> candidates[i].pred_latency_impact_ms,
         pred_inlet_change_c |-> candidates[i].pred_inlet_change_c,
         risk_score |-> candidates[i].risk_score,
         reason |-> candidates[i].reason,
         score |-> Score(candidates[i], w)]]

\* the weights rank_candidates uses (policies.py 195-200)
WeightsUsed(weights) == IF weights = None THEN DefaultWeights ELSE Val(weights)

\* ActionPolicy.rank_candidates: the list it returns
RankCandidates(candidates, weights) ==
    IF candidates = <<>> THEN <<>>
    ELSE SortedByScore(WithScores(candidates, WeightsUsed(weights)))

\* the caller's list after the call: the same objects, each now with a score
AfterRank(candidates, weights) ==
    IF candidates = <<>> THEN candidates
    ELSE WithScores(candidates, WeightsUsed(weights))

-----------------------------------------------------------------------------
\* The loop controllers (optimizer/fast_loop.py, optimizer/slow_loop.py)

\* f"{best.action}:{best.target}"
TargetKey(c) == <<c.action, c.target>>

\* lines 75-79 of both loops: the key was written less than window ago
RateLimitedNever(map, key, t, window) == FALSE
RateLimited(map, key, t, window) ==
    key \in DOMAIN map /\ t - map[key] < window

\* self.last_action_ts[target_key] = datetime.utcnow()
Stamp(map, key, t) ==
    [k \in DOMAIN map \cup {key} |-> IF k = key THEN t ELSE map[k]]

\* fast_loop.py 37-51: the reasons collected by the trigger conditions
FastReasonsNoPersistent(s) ==
    LET deviation == Get(s, "ims_deviation", 0)
        tf == Get(s, "tau_fast", 1000)
        max_inlet_c == Get(s, "max_inlet_c", 2200)
    IN  (IF deviation > tf THEN <<"IMS deviation > tau_fast">> ELSE <<>>)
        \o (IF max_inlet_c > inlet_max_c - 50 THEN <<"Inlet temp near limit">> ELSE <<>>)
FastReasonsWideMargin(s) ==
    LET deviation == Get(s, "ims_deviation", 0)
        mms_state == Get(s, "mms_state", "transient")
        tf == Get(s, "tau_fast", 1000)
        max_inlet_c == Get(s, "max_inlet_c", 2200)
    IN  (IF deviation > tf THEN <<"IMS deviation > tau_fast">> ELSE <<>>)
        \o (IF mms_state = "persistent" THEN <<"MMS state is PERSISTENT">> ELSE <<>>)
        \o (IF max_inlet_c > inlet_max_c - 500 THEN <<"Inlet temp near limit">> ELSE <<>>)
FastReasons(s) ==
    LET deviation == Get(s, "ims_deviation", 0)
        mms_state == Get(s, "mms_state", "transient")
        tf == Get(s, "tau_fast", 1000)
        max_inlet_c == Get(s, "max_inlet_c", 2200)
    IN  (IF deviation > tf THEN <<"IMS deviation > tau_fast">> ELSE <<>>)
        \o (IF mms_state = "persistent" THEN <<"MMS state is PERSISTENT">> ELSE <<>>)
        \o (IF max_inlet_c > inlet_max_c - 50 THEN <<"Inlet temp near limit">> ELSE <<>>)

\* '; '.join(reason)
RECURSIVE Join(_, _)
Join(parts, sep) ==
    IF parts = <<>> THEN <<>>
    ELSE IF Len(parts) = 1 THEN parts
    ELSE <<Head(parts), sep>> \o Join(Tail(parts), sep)

\* fast_loop.py 66-68: the low-risk candidates, or all of them when none is
SafeOrAllUnfiltered(candidates) == candidates
SafeOrAll(candidates) ==
    LET safe_candidates == SelectSeq(candidates, LAMBDA c : c.risk_score < 50)
    IN  IF safe_candidates = <<>> THEN candidates ELSE safe_candidates

\* fast_loop.py 27-71, the part of evaluate that reads only its argument:
\* the trigger reasons, the generated candidates and the selected one
FastPlan(s) ==
    LET reason == FastReasons(s)
        candidates == GenerateCandidates(s, "stabilize")
    IN  [reason |-> reason,
         candidates |-> candidates,
         best |-> IF reason = <<>> \/ candidates = <<>> THEN None
                  ELSE Some(RankCandidates(SafeOrAll(candidates), None)[1])]

\* fast_loop.py 53-95: evaluate past the kill-switch check
FastAfterKillSwitchExtending(plan, map, t) ==
    IF plan.reason = <<>>
    THEN [ret |-> None, map |-> map, at |-> "no_action"]
    ELSE IF plan.candidates = <<>>
    THEN [ret |-> None, map |-> map, at |-> "no_candidates"]
    ELSE LET best == Val(plan.best)
             key == TargetKey(best)
         IN  IF RateLimited(map, key, t, FastRateLimit)
             THEN [ret |-> None, map |-> Stamp(map, key, t), at |-> "rate_limited"]
             ELSE [ret |-> Some([action |-> best.action, params |-> best.params,
                                 target |-> best.target,
                                 pred_saving_pct |-> best.pred_saving_pct,
                                 reason |-> Join(plan.reason, "; ")
                                            \o <<" -> ">> \o best.reason,
                                 loop |-> "fast", ts |-> t]),
                   map |-> Stamp(map, key, t), at |-> "proposal"]
FastAfterKillSwitch(plan, map, t) ==
    IF plan.reason = <<>>
    THEN [ret |-> None, map |-> map, at |-> "no_action"]
    ELSE IF plan.candidates = <<>>
    THEN [ret |-> None, map |-> map, at |-> "no_candidates"]
    ELSE LET best == Val(plan.best)
             key == TargetKey(best)
         IN  IF RateLimited(map, key, t, FastRateLimit)
             THEN [ret |-> None, map |-> map, at |-> "rate_limited"]
             ELSE [ret |-> Some([action |-> best.action, params |-> best.params,
                                 target |-> best.target,
                                 pred_saving_pct |-> best.pred_saving_pct,
                                 reason |-> Join(plan.reason, "; ")
                                            \o <<" -> ">> \o best.reason,
                                 loop |-> "fast", ts |-> t]),
                   map |-> Stamp(map, key, t), at |-> "proposal"]

\* FastGuardrailLoop.evaluate: what it returns, the map it leaves and the
\* return statement it leaves through
FastResultNoKill(plan, map, kill, t) == FastAfterKillSwitch(plan, map, t)
FastResult(plan, map, kill, t) ==
    IF kill
    THEN [ret |-> None, map |-> map, at |-> "kill_switch"]
    ELSE FastAfterKillSwitch(plan, map, t)

\* SlowOptimizerLoop._apply_guardrails: one candidate against the four guardrails
PassesNoInlet(c, s) ==
    LET avg_latency_ms == Get(s, "avg_latency_ms", 1800)
        deviation == Get(s, "ims_deviation", 0)
        tp == Get(s, "tau_persist", 2000)
    IN  /\ ~ (avg_latency_ms + c.pred_latency_impact_ms > sla_latency_ms)
        /\ ~ (c.pred_inlet_change_c > 100 /\ deviation * 10 > tp * 7)
        /\ ~ (c.risk_score > 60 /\ Get(s, "recent_rollback", FALSE))
PassesGuardrails(c, s) ==
    LET max_inlet_c == Get(s, "max_inlet_c", 2200)
        avg_latency_ms == Get(s, "avg_latency_ms", 1800)
        deviation == Get(s, "ims_deviation", 0)
        tp == Get(s, "tau_persist", 2000)
    IN  /\ ~ (max_inlet_c + c.pred_inlet_change_c > inlet_max_c)
        /\ ~ (avg_latency_ms + c.pred_latency_impact_ms > sla_latency_ms)
        /\ ~ (c.pred_inlet_change_c > 100 /\ deviation * 10 > tp * 7)
        /\ ~ (c.risk_score > 60 /\ Get(s, "recent_rollback", FALSE))

\* SlowOptimizerLoop._apply_guardrails
ApplyGuardrailsNone(candidates, s, forecaster) == candidates
ApplyGuardrails(candidates, s, forecaster) ==
    SelectSeq(candidates, LAMBDA c : PassesGuardrails(c, s))

\* slow_loop.py 36-48: the system is not stable enough to optimize
SlowSkipNever(s) == "no"
SlowSkip(s) ==
    LET mms_state == Get(s, "mms_state", "transient")
        avg_latency_ms == Get(s, "avg_latency_ms", 1800)
    IN  IF mms_state = "persistent" THEN "persistent"
        ELSE IF avg_latency_ms * 100 > sla_latency_ms * 95 THEN "latency"
        ELSE "no"

\* slow_loop.py 36-71, the part of optimize that reads only its argument:
\* the stability check, the candidates, the guardrail survivors, the best
SlowPlan(s) ==
    LET skip == SlowSkip(s)
        candidates == IF skip = "no" THEN GenerateCandidates(s, "reduce_j_per_prompt")
                      ELSE <<>>
        safe_candidates == ApplyGuardrails(candidates, s, None)
    IN  [skip |-> skip,
         candidates |-> candidates,
         safe_candidates |-> safe_candidates,
         best |-> IF safe_candidates = <<>> THEN None
                  ELSE Some(RankCandidates(safe_candidates, None)[1])]

\* slow_loop.py 58-96: optimize past the kill-switch and stability checks
SlowAfterSkip(plan, map, t) ==
    IF plan.candidates = <<>>
    THEN [ret |-> None, map |-> map, at |-> "no_candidates"]
    ELSE IF plan.safe_candidates = <<>>
    THEN [ret |-> None, map |-> map, at |-> "guardrails"]
    ELSE LET best == Val(plan.best)
             key == TargetKey(best)
         IN  IF RateLimited(map, key, t, write_rate_limit_s)
             THEN [ret |-> None, map |-> map, at |-> "rate_limited"]
             ELSE [ret |-> Some([action |-> best.action, params |-> best.params,
                                 target |-> best.target,
                                 pred_saving_pct |-> best.pred_saving_pct,
                                 pred_latency_impact_ms |-> best.pred_latency_impact_ms,
                                 reason |-> best.reason,
                                 loop |-> "slow", ts |-> t]),
                   map |-> Stamp(map, key, t), at |-> "proposal"]

\* SlowOptimizerLoop.optimize
SlowResult(plan, map, kill, t) ==
    IF kill
    THEN [ret |-> None, map |-> map, at |-> "kill_switch"]
    ELSE IF plan.skip # "no"
    THEN [ret |-> None, map |-> map, at |-> plan.skip]
    ELSE SlowAfterSkip(plan, map, t)

-----------------------------------------------------------------------------
\* Bounds of the model
MaxTicks == 2
TicksPerWindow == 2
MaxUpdates == 4
MaxHystUpdates == 7
MaxDropUpdates == 104
MaxCands == 2
MaxRank == 3

\* the window of the instance's class
Window(l) == IF l = "fast" THEN FastRateLimit ELSE write_rate_limit_s

\* the snapshots get_current_state() hands to the loops (api/routes_state.py
\* 92-113): the empty dict when there are no rollups, else a full record
EmptyState == [k \in {} |-> 0]
CurrentStates ==
    {EmptyState} \cup
    [avg_inlet_c : {2200},
     max_inlet_c : {2200, 2650, 2795},
     avg_latency_ms : {1800, 2300, 2400},
     j_per_prompt_wh : {50},
     ims_deviation : {300, 2000},
     mms_state : {"transient", "persistent"},
     tau_fast : {1000},
     tau_persist : {2000},
     rack_temperatures : {<<>>},
     recent_rollback : {FALSE}]

\* FastPlan and SlowPlan of every snapshot
FastPlanOf == [s \in CurrentStates |-> FastPlan(s)]
SlowPlanOf == [s \in CurrentStates |-> SlowPlan(s)]

LoopInit ==
    /\ loop \in {"fast", "slow"}
    /\ last_action_ts = <<>>
    /\ global_kill_switch \in BOOLEAN
    /\ now = 0
    /\ n_ticks = 0
    /\ current_state = None
    /\ proposal = None
    /\ returned_at = "init"
    /\ issued_at = <<>>
    /\ gap = None

\* the caller obtains the snapshot it will pass (api/app.py 100-101,
\* 134-135; the tests build it by hand)
GetCurrentState(s) ==
    /\ current_state = None
    /\ current_state' = Some(s)
    /\ UNCHANGED <<loop, last_action_ts, global_kill_switch, now, n_ticks,
                   proposal, returned_at, issued_at, gap>>

\* one call of the instance's entry point with that snapshot, as a whole
Call(r) ==
    /\ current_state' = None
    /\ proposal' = r.ret
    /\ last_action_ts' = r.map
    /\ returned_at' = r.at
    /\ IF r.ret = None
       THEN gap' = None /\ UNCHANGED issued_at
       ELSE LET key == <<Val(r.ret).action, Val(r.ret).target>>
            IN  /\ gap' = IF key \in DOMAIN issued_at
                          THEN Some(now - issued_at[key]) ELSE None
                /\ issued_at' = [k \in DOMAIN issued_at \cup {key} |->
                                    IF k = key THEN now ELSE issued_at[k]]
    /\ UNCHANGED <<loop, global_kill_switch, now, n_ticks>>

FastEvaluate ==
    /\ loop = "fast"
    /\ current_state # None
    /\ Call(FastResult(FastPlanOf[Val(current_state)], last_action_ts,
                       global_kill_switch, now))

SlowOptimize ==
    /\ loop = "slow"
    /\ current_state # None
    /\ Call(SlowResult(SlowPlanOf[Val(current_state)], last_action_ts,
                       global_kill_switch, now))

\* time passes between calls
Tick ==
    /\ n_ticks < MaxTicks
    /\ n_ticks' = n_ticks + 1
    /\ now' = now + Window(loop) \div TicksPerWindow
    /\ UNCHANGED <<loop, last_action_ts, global_kill_switch, current_state,
                   proposal, returned_at, issued_at, gap>>

\* the operator sets or clears settings.global_kill_switch
SetKillSwitch ==
    /\ global_kill_switch' = ~ global_kill_switch
    /\ UNCHANGED <<loop, last_action_ts, now, n_ticks, current_state,
                   proposal, returned_at, issued_at, gap>>

GuardIdle ==
    /\ g_candidates = <<>>
    /\ g_state = EmptyState
    /\ g_safe = None

FilterIdle == MMSFilterInit(None, None, None, None)

RankIdle ==
    /\ r_input = <<>>
    /\ r_candidates = <<>>
    /\ r_weights = None
    /\ r_ranked = None
    /\ r_prev = None
    /\ r_calls = 0

\* config.py 44-45
default_tau_fast_percentile == 95
default_tau_persist_percentile == 98

ImsIdle ==
    /\ ims_tau_fast_percentile = default_tau_fast_percentile
    /\ ims_tau_persist_percentile = default_tau_persist_percentile
    /\ t_scaler = None
    /\ t_kmeans = None
    /\ t_tau_fast = None
    /\ t_tau_persist = None
    /\ t_trained = 0
    /\ t_raised = ""
    /\ t_n_samples = None
    /\ scorer = None
    /\ s_samples = <<>>
    /\ s_batch = None
    /\ s_single = <<>>

\* the controller tasks of background_tasks, in the order lifespan starts
\* and cancels them (app.py 169-170, 181)
TaskOrder == <<"fast_guardrail", "slow_optimizer">>
TaskNames == {TaskOrder[i] : i \in 1..Len(TaskOrder)}

\* lifespan after startup: every task is in its first sleep
LifeInit ==
    /\ life_pc = "serving"
    /\ life_next = 1
    /\ task_pc = [t \in TaskNames |-> "sleep"]
    /\ task_must_cancel = [t \in TaskNames |-> FALSE]
    /\ task_ticks = [t \in TaskNames |-> 0]
    /\ task_issued = [t \in TaskNames |-> 0]
    /\ task_handed = [t \in TaskNames |-> 0]
    /\ ws_to_send = [t \in TaskNames |-> 0]
    /\ active_connections = 0
LifeIdle == LifeInit

\* bounds of the retrain specification
MaxHandlers == 2
MaxModelIds == 2
Handlers == 1..MaxHandlers

\* an empty ims_model table and no request in progress
DbInit ==
    /\ db_models = {}
    /\ h_pc = [h \in Handlers |-> "idle"]
    /\ h_model_id = [h \in Handlers |-> 0]
    /\ h_old = [h \in Handlers |-> {}]
    /\ reader_seen = None
DbIdle == DbInit

\* config.py 36; executors/__init__.py 11-15, 88-93: the settings and the
\* executors as the module builds them.  supply_temp_c is in 1/10 degC,
\* paused_jobs is the length of the list.
ActInit ==
    /\ default_mode = "advisory"
    /\ scheduler_executor = [current_batch_window_ms |-> 180,
                             traffic_distribution |-> <<>>,
                             paused_jobs |-> 0]
    /\ bms_executor = [supply_temp_c |-> 180, fan_rpm_pct |-> 65, pump_rpm_pct |-> 58,
                       last_write |-> <<>>]
    /\ executor_calls = 0
    /\ audit = <<>>
    /\ response = None
ActIdle == ActInit

TickInit ==
    /\ tick_pc = "sleep"
    /\ tick_map_before = <<>>
    /\ tick_caught = ""
    /\ iter_used = 0
    /\ iter_left = 0
TickIdle == TickInit

FeedInit == feed = "any" /\ feed_from = 0
FeedIdle == FeedInit

AppIdle == LifeIdle /\ DbIdle /\ ActIdle /\ TickIdle /\ FeedIdle

ExtIdle == RankIdle /\ ImsIdle /\ AppIdle

InitLoops == LoopInit /\ FilterIdle /\ GuardIdle /\ ExtIdle
NextLoops ==
    \/ \E s \in CurrentStates :
          GetCurrentState(s) /\ UNCHANGED <<filter_vars, guard_vars, ext_vars>>
    \/ FastEvaluate /\ UNCHANGED <<filter_vars, guard_vars, ext_vars>>
    \/ SlowOptimize /\ UNCHANGED <<filter_vars, guard_vars, ext_vars>>
    \/ Tick /\ UNCHANGED <<filter_vars, guard_vars, ext_vars>>
    \/ SetKillSwitch /\ UNCHANGED <<filter_vars, guard_vars, ext_vars>>
SpecLoops == InitLoops /\ [][NextLoops]_vars

-----------------------------------------------------------------------------
\* _apply_guardrails applied to arbitrary candidate lists and states

GuardCandidates ==
    [action : {"increase_supply_temp"}, params : {[delta_c |-> 100]},
     target : {"system"}, pred_saving_pct : {400},
     pred_latency_impact_ms : {0, 160},
     pred_inlet_change_c : {-40, 100, 150},
     risk_score : {60, 70},
     reason : {<<"test">>}]

GuardStates ==
    [avg_inlet_c : {2200},
     max_inlet_c : {2650, 2700, 2795},
     avg_latency_ms : {2340, 2400},
     j_per_prompt_wh : {50},
     ims_deviation : {1400, 2000},
     mms_state : {"transient"},
     tau_fast : {1000},
     tau_persist : {2000},
     rack_temperatures : {<<>>},
     recent_rollback : BOOLEAN]

LoopIdle ==
    /\ loop = "slow"
    /\ last_action_ts = <<>>
    /\ global_kill_switch = FALSE
    /\ now = 0
    /\ n_ticks = 0
    /\ current_state = None
    /\ proposal = None
    /\ returned_at = "init"
    /\ issued_at = <<>>
    /\ gap = None

InitGuard ==
    /\ g_candidates \in UNION {[1..n -> GuardCandidates] : n \in 0..MaxCands}
    /\ g_state \in GuardStates
    /\ g_safe = None
    /\ LoopIdle
    /\ FilterIdle
    /\ ExtIdle

ApplyGuard ==
    /\ g_safe = None
    /\ g_safe' = Some(ApplyGuardrails(g_candidates, g_state, None))
    /\ UNCHANGED <<g_candidates, g_state, loop_vars, filter_vars, ext_vars>>

NextGuard == ApplyGuard
SpecGuard == InitGuard /\ [][NextGuard]_vars

-----------------------------------------------------------------------------
\* generate_candidates called on its own (tests/test_optimizer.py 8-24):
\* g_state is the snapshot passed, g_candidates the list returned

PolicyStates ==
    {EmptyState} \cup
    [avg_inlet_c : {2200},
     max_inlet_c : {2200, 2650, 2795, 2900},
     avg_latency_ms : {1800, 2120, 2125, 2300},
     ims_deviation : {300, 600},
     mms_state : {"transient", "persistent"},
     rack_temperatures : {<<>>, <<<<"R-A-01", 2000>>, <<"R-C-01", 2300>>>>}]

InitPolicy ==
    /\ GuardIdle
    /\ LoopIdle
    /\ FilterIdle
    /\ ExtIdle

GenerateCall ==
    \E s \in PolicyStates, objective \in {"reduce_j_per_prompt", "stabilize"} :
        /\ g_state' = s
        /\ g_candidates' = GenerateCandidates(s, objective)
        /\ UNCHANGED <<g_safe, loop_vars, filter_vars, ext_vars>>

NextPolicy == GenerateCall
SpecPolicy == InitPolicy /\ [][NextPolicy]_vars

-----------------------------------------------------------------------------
\* The filter under arbitrary calls

Deviations == {0, 1500, 5000}
ThresholdPairs == {<<1000, 2000>>, <<3000, 4000>>}

InitFilter ==
    /\ \E a \in {None, Some(500)}, pt \in {Some(1), Some(2)},
          th \in {<<None, None>>, <<Some(1000), None>>, <<Some(1000), Some(2000)>>} :
          MMSFilterInit(a, pt, th[1], th[2])
    /\ LoopIdle
    /\ GuardIdle
    /\ ExtIdle

NextFilter ==
    \/ \E d \in Deviations :
          n_updates < MaxUpdates /\ Update(d) /\ UNCHANGED <<loop_vars, guard_vars, ext_vars>>
    \/ \E th \in ThresholdPairs :
          UpdateThresholds(th[1], th[2]) /\ UNCHANGED <<loop_vars, guard_vars, ext_vars>>
    \/ Reset /\ UNCHANGED <<loop_vars, guard_vars, ext_vars>>
SpecFilter == InitFilter /\ [][NextFilter]_vars

\* A filter whose thresholds come from a trainer that is trained or not
TrainerThresholds == {<<None, None>>, <<Some(1000), Some(2000)>>}
InitUnset ==
    /\ \E pt \in {Some(1), Some(2)}, th \in TrainerThresholds :
          MMSFilterInit(None, pt, th[1], th[2])
    /\ LoopIdle
    /\ GuardIdle
    /\ ExtIdle
NextUnset ==
    \/ \E d \in Deviations :
          n_updates < MaxUpdates /\ Update(d) /\ UNCHANGED <<loop_vars, guard_vars, ext_vars>>
    \/ \E th \in TrainerThresholds :
          UpdateThresholdsFrom(th[1], th[2]) /\ UNCHANGED <<loop_vars, guard_vars, ext_vars>>
SpecUnset == InitUnset /\ [][NextUnset]_vars

\* The filter under a caller that, from some point on, feeds only high or
\* only low deviations: tau_fast = 1.0, tau_persist = 2.0, alpha = 0.5

MaxFreeUpdates == 2
MaxSustained == 7

\* the deviations of the sustained feeds: all >= 2.5 > tau_persist, or all
\* <= 0.5 < tau_fast
Fed(f) == IF f = "high" THEN {2500, 5000} ELSE {0, 500}

other_than_filter_feed == <<loop_vars, guard_vars, rank_vars, ims_vars, life_vars,
                            db_vars, act_vars, tick_vars>>

InitSustained ==
    /\ \E pt \in {Some(1), Some(2)} : MMSFilterInit(Some(500), pt, Some(1000), Some(2000))
    /\ LoopIdle
    /\ GuardIdle
    /\ RankIdle /\ ImsIdle /\ LifeIdle /\ DbIdle /\ ActIdle /\ TickIdle
    /\ FeedInit

FreeUpdate ==
    /\ feed = "any"
    /\ n_updates < MaxFreeUpdates
    /\ \E d \in Deviations : Update(d)
    /\ UNCHANGED <<feed_vars, other_than_filter_feed>>

FreeReset ==
    /\ feed = "any"
    /\ Reset
    /\ UNCHANGED <<feed_vars, other_than_filter_feed>>

\* from now on every deviation fed is high / is low
Sustain ==
    /\ feed = "any"
    /\ feed' \in {"high", "low"}
    /\ feed_from' = n_updates
    /\ UNCHANGED <<filter_vars, other_than_filter_feed>>

SustainedUpdate ==
    /\ feed # "any"
    /\ n_updates < feed_from + MaxSustained
    /\ \E d \in Fed(feed) : Update(d)
    /\ UNCHANGED <<feed_vars, other_than_filter_feed>>

NextSustained == FreeUpdate \/ FreeReset \/ Sustain \/ SustainedUpdate
\* the caller keeps calling update(): the scoring loop feeds the filter on
\* every iteration (viz/dashboard.py 772-806)
SpecSustained == InitSustained /\ [][NextSustained]_vars /\ WF_vars(SustainedUpdate)

\* The filter of the hysteresis scenario: persist_ticks=6, tau_fast=1.0,
\* tau_persist=2.0, fed 5.0 or 0.1
InitHyst ==
    /\ MMSFilterInit(None, Some(6), Some(1000), Some(2000))
    /\ LoopIdle
    /\ GuardIdle
    /\ ExtIdle
NextHyst ==
    \E d \in {5000, 100} :
        n_updates < MaxHystUpdates /\ Update(d) /\ UNCHANGED <<loop_vars, guard_vars, ext_vars>>
SpecHyst == InitHyst /\ [][NextHyst]_vars

\* The same filter fed one 5.0 and then 0.1 on every later tick
NextDrop ==
    /\ n_updates < MaxDropUpdates
    /\ Update(IF n_updates = 0 THEN 5000 ELSE 100)
    /\ UNCHANGED <<loop_vars, guard_vars, ext_vars>>
SpecDrop == InitHyst /\ [][NextDrop]_vars

-----------------------------------------------------------------------------
\* rank_candidates applied to arbitrary candidate lists

\* candidates as a caller may construct them (ActionCandidate, policies.py
\* 9-19): two savings, two risks, latency impacts of either sign
RankInputs ==
    [action : {"increase_batch_window"}, params : {[delta_ms |-> 30]},
     target : {"system"},
     pred_saving_pct : {600, 612},
     pred_latency_impact_ms : {0, -400, 400},
     pred_inlet_change_c : {10},
     risk_score : {20, 30},
     reason : {<<"Test">>}]

\* weights a caller may pass, in the dict's own (signed) convention
RankWeights == {None, Some([saving_pct |-> 5, risk_score |-> -10, latency_impact |-> -20])}

CoreIdle == LoopIdle /\ FilterIdle /\ GuardIdle

InitRank ==
    /\ r_input \in UNION {[1..n -> RankInputs] : n \in 0..MaxRank}
    /\ r_candidates = r_input
    /\ r_weights \in RankWeights
    /\ r_ranked = None
    /\ r_prev = None
    /\ r_calls = 0
    /\ CoreIdle
    /\ ImsIdle
    /\ AppIdle

\* one call policy.rank_candidates(candidates, weights) on the caller's list
Rank ==
    /\ r_calls < 2
    /\ r_calls' = r_calls + 1
    /\ r_ranked' = Some(RankCandidates(r_candidates, r_weights))
    /\ r_candidates' = AfterRank(r_candidates, r_weights)
    /\ r_prev' = r_ranked
    /\ UNCHANGED <<r_input, r_weights, filter_vars, loop_vars, guard_vars, ims_vars,
                   app_vars>>

NextRank == Rank
SpecRank == InitRank /\ [][NextRank]_vars

-----------------------------------------------------------------------------
\* IMSTrainer and IMSScorer (ims/train.py, ims/score.py)
\*
\* Telemetry features are whole numbers of their own unit (degC, kW, ms, %).
\* The trainer is the one built with n_clusters = 1, whose single k-means
\* center is the mean of the scaled training rows, i.e. the origin.  A fitted
\* scaler is kept as the number n of training rows and the column sums, and a
\* scaled value as n*x - sum (the centered value in units of 1/n); the
\* per-feature scale_ is taken as 1.  Deviations are the floor of the
\* Euclidean norm in that unit; thresholds are in 1/100 of it.

\* what no trainer or scorer operation touches
other_than_ims == <<filter_vars, loop_vars, guard_vars, rank_vars, app_vars>>

\* IMSTrainer.FEATURE_COLUMNS
FEATURE_COLUMNS ==
    <<"inlet_c", "outlet_c", "delta_t", "pdu_kw", "gpu_power_kw", "tokens_ps",
      "latency_p95_ms", "queue_depth", "fan_rpm_pct", "pump_rpm_pct">>

\* config.py 40
rack_kw_cap == 12
\* train.py 129: the fewest samples train() accepts
MinSamples == 100

\* a missing cell of a DataFrame, a value no reading and no difference of
\* readings takes
NaN == -999999

\* pd.DataFrame(list of dicts): the columns are the union of the keys, a key
\* a row lacks is NaN in it
DataFrame(samples) ==
    LET cols == UNION {DOMAIN samples[i] : i \in 1..Len(samples)}
    IN  [columns |-> cols,
         rows |-> [i \in 1..Len(samples) |->
                     [c \in cols |-> IF c \in DOMAIN samples[i]
                                     THEN samples[i][c] ELSE NaN]]]

\* .values / np.array: the sequence as an array of evaluated elements
AsArray(s) == SubSeq(s, 1, Len(s))

\* arithmetic on cells
Sub(a, b) == IF a = NaN \/ b = NaN THEN NaN ELSE a - b
FillZero(a) == IF a = NaN THEN 0 ELSE a

\* df[name] = column, a column added or replaced
WithColumn(df, name, column) ==
    [columns |-> df.columns \cup {name},
     rows |-> [i \in 1..Len(df.rows) |->
                 [c \in df.columns \cup {name} |->
                     IF c = name THEN column[i] ELSE df.rows[i][c]]]]

\* train.py 62-64: df['gpu_energy_j'].diff().fillna(0) / 1000.0, row i
GpuPower(df, i) ==
    IF i = 1 THEN 0
    ELSE FillZero(Sub(df.rows[i].gpu_energy_j, df.rows[i - 1].gpu_energy_j)) \div 1000

\* IMSTrainer.prepare_features: the feature matrix, or the KeyError pandas
\* raises for a column that is not there
PrepareFeatures(df) ==
    IF "delta_t" \notin df.columns /\ ~ ({"outlet_c", "inlet_c"} \subseteq df.columns)
    THEN [raised |-> "KeyError", X |-> <<>>]
    ELSE
    LET df1 == IF "delta_t" \notin df.columns
               THEN WithColumn(df, "delta_t",
                        [i \in 1..Len(df.rows) |->
                            Sub(df.rows[i].outlet_c, df.rows[i].inlet_c)])
               ELSE df
        df2 == IF "gpu_power_kw" \notin df1.columns /\ "gpu_energy_j" \in df1.columns
               THEN WithColumn(df1, "gpu_power_kw",
                        [i \in 1..Len(df1.rows) |-> GpuPower(df1, i)])
               ELSE df1
    IN  IF \E j \in 1..Len(FEATURE_COLUMNS) : FEATURE_COLUMNS[j] \notin df2.columns
        THEN [raised |-> "KeyError", X |-> <<>>]
        ELSE [raised |-> "",
              X |-> AsArray([i \in 1..Len(df2.rows) |->
                       AsArray([j \in 1..Len(FEATURE_COLUMNS) |->
                           FillZero(df2.rows[i][FEATURE_COLUMNS[j]])])])]

\* IMSTrainer.filter_nominal_windows
IsNominal(row, has_delta_t) ==
    /\ row.inlet_c * 100 <= inlet_max_c
    /\ row.latency_p95_ms * 10 <= sla_latency_ms
    /\ IF has_delta_t THEN row.delta_t > 0 ELSE row.outlet_c - row.inlet_c > 0
    /\ row.pdu_kw > 2
    /\ row.pdu_kw * 100 < rack_kw_cap * 95
FilterNominalWindows(df) ==
    [columns |-> df.columns,
     rows |-> SelectSeq(df.rows, LAMBDA row : IsNominal(row, "delta_t" \in df.columns))]

\* the sum of s[lo..hi], by halves
RECURSIVE SumRange(_, _, _)
SumRange(s, lo, hi) ==
    IF lo > hi THEN 0
    ELSE IF lo = hi THEN s[lo]
    ELSE LET mid == (lo + hi) \div 2
         IN  SumRange(s, lo, mid) + SumRange(s, mid + 1, hi)
SumSeq(s) == SumRange(s, 1, Len(s))

\* floor of the square root, by bisection on lo..hi
RECURSIVE Bisect(_, _, _)
Bisect(x, lo, hi) ==
    IF lo >= hi THEN lo
    ELSE LET mid == (lo + hi + 1) \div 2
         IN  IF mid * mid <= x THEN Bisect(x, mid, hi) ELSE Bisect(x, lo, mid - 1)
ISqrt(x) == Bisect(x, 0, IF x < 40000 THEN 200 ELSE 40000)

\* StandardScaler.fit: the number of rows and the column sums
ScalerFit(X) ==
    [n |-> Len(X),
     sum |-> AsArray([j \in 1..Len(FEATURE_COLUMNS) |->
                SumSeq(AsArray([i \in 1..Len(X) |-> X[i][j]]))])]

\* StandardScaler.transform, row by row
ScalerTransform(sc, X) ==
    AsArray([i \in 1..Len(X) |->
        AsArray([j \in 1..Len(FEATURE_COLUMNS) |-> sc.n * X[i][j] - sc.sum[j]])])

\* MiniBatchKMeans(n_clusters=1).fit: the mean of the scaled rows
KMeansFit(X_scaled) == <<AsArray([j \in 1..Len(FEATURE_COLUMNS) |-> 0])>>

\* _compute_deviations / score.py 43-44, 70-71: kmeans.transform and the
\* minimum over the centers, row by row
Distance(x, c) ==
    ISqrt(SumSeq(AsArray([j \in 1..Len(x) |-> (x[j] - c[j]) * (x[j] - c[j])])))
MinOver(ds) == CHOOSE d \in {ds[k] : k \in 1..Len(ds)} :
                  \A k \in 1..Len(ds) : d <= ds[k]
ComputeDeviations(centers, X_scaled) ==
    AsArray([i \in 1..Len(X_scaled) |->
        MinOver(AsArray([k \in 1..Len(centers) |-> Distance(X_scaled[i], centers[k])]))])

\* the k-th smallest value of a, the k-th element of a sorted ascending
KthSmallest(a, k) ==
    CHOOSE v \in {a[i] : i \in 1..Len(a)} :
        /\ Cardinality({i \in 1..Len(a) : a[i] < v}) < k
        /\ k <= Cardinality({i \in 1..Len(a) : a[i] <= v})

\* np.percentile(a, q), linear interpolation, in 1/100 of the unit of a
Percentile(a, q) ==
    LET pos == q * (Len(a) - 1)
        k == pos \div 100
        r == pos % 100
        lo == KthSmallest(a, k + 1)
        hi == IF k + 2 <= Len(a) THEN KthSmallest(a, k + 2) ELSE lo
    IN  100 * lo + r * (hi - lo)

\* train.py 129: the size check of train()
EnoughSamplesAny(n) == TRUE
EnoughSamples(n) == n >= MinSamples

\* score.py 19: the check of IMSScorer.__init__
ScorerReadyAlways(tau_fast_, tau_persist_) == TRUE
ScorerReady(tau_fast_, tau_persist_) == tau_fast_ # None /\ tau_persist_ # None

\* IMSTrainer.train up to the deviations of the training rows
\* (train.py 125-145): what it raises, and the fitted scaler and centers
Fit(df, skip_nominal_filter) ==
    LET nominal_df == IF skip_nominal_filter THEN df ELSE FilterNominalWindows(df)
        prepared == PrepareFeatures(nominal_df)
        sc == ScalerFit(prepared.X)
        X_scaled == ScalerTransform(sc, prepared.X)
        centers == KMeansFit(X_scaled)
    IN  IF ~ EnoughSamples(Len(nominal_df.rows))
        THEN [raised |-> "IMSNotTrainedException: Insufficient nominal samples",
              n |-> Len(nominal_df.rows)]
        ELSE IF prepared.raised # ""
        THEN [raised |-> prepared.raised, n |-> Len(nominal_df.rows)]
        ELSE [raised |-> "", n |-> Len(nominal_df.rows), scaler |-> sc, kmeans |-> centers,
              deviations |-> ComputeDeviations(centers, X_scaled)]

\* score_batch / score_sample after the DataFrame is built
ScoreFrame(df) ==
    LET prepared == PrepareFeatures(df)
    IN  IF prepared.raised # "" THEN [raised |-> prepared.raised, scores |-> <<>>]
        ELSE [raised |-> "",
              scores |-> ComputeDeviations(Val(t_kmeans),
                             ScalerTransform(Val(t_scaler), prepared.X))]
ScoreBatchOf(samples) ==
    IF samples = <<>> THEN [raised |-> "", scores |-> <<>>]
    ELSE ScoreFrame(DataFrame(samples))
ScoreSampleOf(sample) ==
    LET r == ScoreFrame(DataFrame(<<sample>>))
    IN  IF r.raised # "" THEN [raised |-> r.raised, score |-> 0]
        ELSE [raised |-> "", score |-> r.scores[1]]

\* bounds of the IMS specification
MaxTrain == 3
MaxBatch == 2

\* telemetry rows as routes_ims.py builds them from the Telemetry table
RowA == [inlet_c |-> 22, outlet_c |-> 35, pdu_kw |-> 8, gpu_energy_j |-> 42000,
         tokens_ps |-> 1000, latency_p95_ms |-> 180, queue_depth |-> 10,
         fan_rpm_pct |-> 65, pump_rpm_pct |-> 55]
RowB == [RowA EXCEPT !.inlet_c = 25, !.outlet_c = 37, !.pdu_kw = 9]
\* a row over the inlet limit, which the nominal filter drops
RowHot == [RowA EXCEPT !.inlet_c = 30, !.outlet_c = 44]
Rows(row, n) == [i \in 1..n |-> row]
TrainingFrames ==
    {DataFrame(rows) : rows \in
        {Rows(RowA, MinSamples - 4) \o Rows(RowB, 4),
         Rows(RowA, MinSamples - 1),
         Rows(RowA, MinSamples - 3) \o Rows(RowHot, 3),
         Rows(RowA, MinSamples - 4) \o Rows(RowB, 4) \o Rows(RowHot, 3),
         Rows(RowA, MinSamples)}}

\* Fit of every training frame
FitOf == [df \in TrainingFrames |-> [skip \in BOOLEAN |-> Fit(df, skip)]]

\* IMSTrainer.train: what the call raises and the trainer it leaves
TrainResult(df, skip_nominal_filter, trainer) ==
    LET fit == FitOf[df][skip_nominal_filter]
    IN  IF fit.raised # ""
        THEN [raised |-> fit.raised, n |-> fit.n, trainer |-> trainer]
        ELSE [raised |-> "", n |-> fit.n,
              trainer |-> <<Some(fit.scaler), Some(fit.kmeans),
                            Some(Percentile(fit.deviations, ims_tau_fast_percentile)),
                            Some(Percentile(fit.deviations, ims_tau_persist_percentile))>>]

\* samples handed to the scorer: a telemetry row (the shape of the samples
\* of tests/test_ims.py), the same row with a later energy counter, a sample
\* that carries delta_t and gpu_power_kw itself, and one without the pump
\* reading
SampleEnergy == [RowA EXCEPT !.gpu_energy_j = 45000]
SampleFull == [inlet_c |-> 24, outlet_c |-> 36, delta_t |-> 12, pdu_kw |-> 8,
               gpu_power_kw |-> 6, tokens_ps |-> 1000, latency_p95_ms |-> 180,
               queue_depth |-> 10, fan_rpm_pct |-> 65, pump_rpm_pct |-> 55]
SampleNoPump == [inlet_c |-> 24, outlet_c |-> 36, delta_t |-> 12, pdu_kw |-> 8,
                 gpu_power_kw |-> 6, tokens_ps |-> 1000, latency_p95_ms |-> 180,
                 queue_depth |-> 10, fan_rpm_pct |-> 65]
Samples == {RowA, SampleEnergy, SampleFull, SampleNoPump}
Batches == UNION {[1..n -> Samples] : n \in 0..MaxBatch}

\* the configured percentiles: the defaults, the two exchanged, and an
\* equal pair
PercentilePairs == {<<default_tau_fast_percentile, default_tau_persist_percentile>>,
                    <<default_tau_persist_percentile, default_tau_fast_percentile>>,
                    <<50, 50>>}

InitIms ==
    /\ \E pp \in PercentilePairs :
          /\ ims_tau_fast_percentile = pp[1]
          /\ ims_tau_persist_percentile = pp[2]
    /\ t_scaler = None
    /\ t_kmeans = None
    /\ t_tau_fast = None
    /\ t_tau_persist = None
    /\ t_trained = 0
    /\ t_raised = ""
    /\ t_n_samples = None
    /\ scorer = None
    /\ s_samples = <<>>
    /\ s_batch = None
    /\ s_single = <<>>
    /\ CoreIdle
    /\ RankIdle
    /\ AppIdle

\* trainer.train(df, skip_nominal_filter); the recorded scoring calls are
\* those made on the current fit, so a new fit forgets them
Train(df, skip_nominal_filter) ==
    /\ t_trained < MaxTrain
    /\ LET r == TrainResult(df, skip_nominal_filter, trainer_vars)
       IN  /\ t_raised' = r.raised
           /\ t_n_samples' = Some(r.n)
           /\ t_scaler' = r.trainer[1]
           /\ t_kmeans' = r.trainer[2]
           /\ t_tau_fast' = r.trainer[3]
           /\ t_tau_persist' = r.trainer[4]
           /\ t_trained' = IF r.raised = "" THEN t_trained + 1 ELSE t_trained
           /\ IF r.raised = ""
              THEN s_samples' = <<>> /\ s_batch' = None /\ s_single' = <<>>
              ELSE UNCHANGED <<s_samples, s_batch, s_single>>
    /\ UNCHANGED <<ims_tau_fast_percentile, ims_tau_persist_percentile, scorer>>

\* IMSScorer(trainer)
NewScorer ==
    /\ scorer = None
    /\ IF ScorerReady(t_tau_fast, t_tau_persist)
       THEN scorer' = Some("trainer") /\ t_raised' = ""
       ELSE /\ scorer' = None
            /\ t_raised' = "IMSNotTrainedException: IMS model has not been trained"
    /\ t_n_samples' = None
    /\ UNCHANGED <<ims_tau_fast_percentile, ims_tau_persist_percentile, trainer_vars,
                   t_trained, s_samples, s_batch, s_single>>

\* scorer.score_batch(samples)
ScoreBatch(samples) ==
    /\ scorer # None
    /\ s_batch = None
    /\ s_samples' = samples
    /\ s_batch' = Some(ScoreBatchOf(samples))
    /\ UNCHANGED s_single
    /\ t_n_samples' = None
    /\ UNCHANGED <<ims_tau_fast_percentile, ims_tau_persist_percentile, trainer_vars,
                   t_trained, t_raised, scorer>>

\* scorer.score_sample(sample); s_single keeps the result of each sample
ScoreSample(sample) ==
    /\ scorer # None
    /\ sample \notin DOMAIN s_single
    /\ s_single' = s_single @@ (sample :> ScoreSampleOf(sample))
    /\ t_n_samples' = None
    /\ UNCHANGED <<ims_tau_fast_percentile, ims_tau_persist_percentile, trainer_vars,
                   t_trained, t_raised, scorer, s_samples, s_batch>>

NextIms ==
    \/ \E df \in TrainingFrames, skip \in BOOLEAN :
          Train(df, skip) /\ UNCHANGED other_than_ims
    \/ NewScorer /\ UNCHANGED other_than_ims
    \/ \E sample \in Samples :
          ScoreSample(sample) /\ UNCHANGED other_than_ims

SpecIms == InitIms /\ [][NextIms]_vars

\* a scorer on a trainer fitted under the default percentiles
InitScoring ==
    /\ ims_tau_fast_percentile = default_tau_fast_percentile
    /\ ims_tau_persist_percentile = default_tau_persist_percentile
    /\ \E df \in TrainingFrames, skip \in BOOLEAN :
          LET r == TrainResult(df, skip, <<None, None, None, None>>)
          IN  /\ r.raised = ""
              /\ t_scaler = r.trainer[1]
              /\ t_kmeans = r.trainer[2]
              /\ t_tau_fast = r.trainer[3]
              /\ t_tau_persist = r.trainer[4]
    /\ t_trained = 1
    /\ t_raised = ""
    /\ t_n_samples = None
    /\ scorer = Some("trainer")
    /\ s_samples = <<>>
    /\ s_batch = None
    /\ s_single = <<>>
    /\ CoreIdle
    /\ RankIdle
    /\ AppIdle

NextScoring ==
    \/ \E samples \in Batches :
          ScoreBatch(samples) /\ UNCHANGED other_than_ims
    \/ \E sample \in Samples :
          ScoreSample(sample) /\ UNCHANGED other_than_ims

SpecScoring == InitScoring /\ [][NextScoring]_vars

-----------------------------------------------------------------------------
\* Application lifespan and the controller tasks (api/app.py)
\*
\* A task is a coroutine; it is suspended at one of its awaits, and only
\* there can the CancelledError of task.cancel() reach it.  evaluate() and
\* optimize() contain no await, so resuming from get_current_state() runs
\* them, and everything up to the next await, in one step.  CancelledError
\* is not an Exception, so neither the `except Exception` of the loop
\* (app.py 119, 153) nor that of broadcast (ws.py 40) catches it.

MaxLoopTicks == 2
MaxConnections == 2

other_than_life == <<filter_vars, loop_vars, guard_vars, rank_vars, ims_vars, db_vars,
                     act_vars, tick_vars, feed_vars>>

\* ws.py 18-21: a client connects
Connect ==
    /\ life_pc = "serving"
    /\ active_connections < MaxConnections
    /\ active_connections' = active_connections + 1
    /\ UNCHANGED <<life_pc, life_next, task_pc, task_must_cancel, task_ticks,
                   task_issued, task_handed, ws_to_send>>

Runnable(t) == task_pc[t] # "done" /\ ~ task_must_cancel[t]

\* app.py 98 / 132: asyncio.sleep returns, the task awaits get_current_state()
Wake(t) ==
    /\ Runnable(t)
    /\ task_pc[t] = "sleep"
    /\ task_ticks[t] < MaxLoopTicks
    /\ task_pc' = [task_pc EXCEPT ![t] = "get_current_state"]
    /\ task_ticks' = [task_ticks EXCEPT ![t] = @ + 1]
    /\ UNCHANGED <<life_pc, life_next, task_must_cancel, task_issued, task_handed,
                   ws_to_send, active_connections>>

\* app.py 102-117 / 136-151: get_current_state() returns; evaluate() or
\* optimize() runs and returns a proposal or None; with a proposal the task
\* calls broadcast_event, which returns at once when nobody is connected
\* (ws.py 31-32) and otherwise awaits the first send_text
StateReturned(t, has_proposal) ==
    /\ Runnable(t)
    /\ task_pc[t] = "get_current_state"
    /\ IF ~ has_proposal
       THEN /\ task_pc' = [task_pc EXCEPT ![t] = "sleep"]
            /\ UNCHANGED <<task_issued, task_handed, ws_to_send>>
       ELSE /\ task_issued' = [task_issued EXCEPT ![t] = @ + 1]
            /\ IF active_connections = 0
               THEN /\ task_handed' = [task_handed EXCEPT ![t] = @ + 1]
                    /\ task_pc' = [task_pc EXCEPT ![t] = "sleep"]
                    /\ UNCHANGED ws_to_send
               ELSE /\ task_pc' = [task_pc EXCEPT ![t] = "broadcast"]
                    /\ ws_to_send' = [ws_to_send EXCEPT ![t] = active_connections]
                    /\ UNCHANGED task_handed
    /\ UNCHANGED <<life_pc, life_next, task_must_cancel, task_ticks, active_connections>>

\* ws.py 37-39: one send_text returns; after the last one broadcast_event
\* returns and the task goes back to its sleep
Sent(t) ==
    /\ Runnable(t)
    /\ task_pc[t] = "broadcast"
    /\ ws_to_send' = [ws_to_send EXCEPT ![t] = @ - 1]
    /\ IF ws_to_send[t] = 1
       THEN /\ task_handed' = [task_handed EXCEPT ![t] = @ + 1]
            /\ task_pc' = [task_pc EXCEPT ![t] = "sleep"]
       ELSE UNCHANGED <<task_handed, task_pc>>
    /\ UNCHANGED <<life_pc, life_next, task_must_cancel, task_ticks, task_issued,
                   active_connections>>

\* app.py 176-178: the server shuts down, lifespan resumes after its yield
Shutdown ==
    /\ life_pc = "serving"
    /\ life_pc' = "shutdown"
    /\ UNCHANGED <<life_next, task_pc, task_must_cancel, task_ticks, task_issued,
                   task_handed, ws_to_send, active_connections>>

\* app.py 181-185: task.cancel(), then lifespan awaits the task
CancelTask ==
    /\ life_pc = "shutdown"
    /\ Runnable(TaskOrder[life_next])
    /\ task_must_cancel' = [task_must_cancel EXCEPT ![TaskOrder[life_next]] = TRUE]
    /\ UNCHANGED <<life_pc, life_next, task_pc, task_ticks, task_issued, task_handed,
                   ws_to_send, active_connections>>

\* the CancelledError is raised at the await the task is suspended at and
\* ends the task
TaskCancelled(t) ==
    /\ task_must_cancel[t]
    /\ task_pc[t] # "done"
    /\ task_pc' = [task_pc EXCEPT ![t] = "done"]
    /\ task_must_cancel' = [task_must_cancel EXCEPT ![t] = FALSE]
    /\ UNCHANGED <<life_pc, life_next, task_ticks, task_issued, task_handed,
                   ws_to_send, active_connections>>

\* app.py 184-189: `await task` returns for a finished task; after the last
\* task lifespan returns
AwaitReturns ==
    /\ life_pc = "shutdown"
    /\ task_pc[TaskOrder[life_next]] = "done"
    /\ IF life_next = Len(TaskOrder)
       THEN life_pc' = "stopped" /\ UNCHANGED life_next
       ELSE life_next' = life_next + 1 /\ UNCHANGED life_pc
    /\ UNCHANGED <<task_pc, task_must_cancel, task_ticks, task_issued, task_handed,
                   ws_to_send, active_connections>>

InitLifespan ==
    /\ LifeInit /\ CoreIdle /\ RankIdle /\ ImsIdle /\ DbIdle /\ ActIdle /\ TickIdle
    /\ FeedIdle

NextLifespan ==
    \/ Connect /\ UNCHANGED other_than_life
    \/ \E t \in TaskNames : Wake(t) /\ UNCHANGED other_than_life
    \/ \E t \in TaskNames, has_proposal \in BOOLEAN :
          StateReturned(t, has_proposal) /\ UNCHANGED other_than_life
    \/ \E t \in TaskNames : Sent(t) /\ UNCHANGED other_than_life
    \/ Shutdown /\ UNCHANGED other_than_life
    \/ CancelTask /\ UNCHANGED other_than_life
    \/ \E t \in TaskNames : TaskCancelled(t) /\ UNCHANGED other_than_life
    \/ AwaitReturns /\ UNCHANGED other_than_life

SpecLifespan == InitLifespan /\ [][NextLifespan]_vars

-----------------------------------------------------------------------------
\* One controller task, tick by tick (api/app.py 89-154), with the instance
\* it drives.  The task is suspended at its sleep, at get_current_state() or
\* at a send_text of broadcast; evaluate() / optimize() and the code around
\* them contain no await and run in the step that resumes the task.

\* config.py 50-51
fast_loop_interval_s == 10
slow_loop_interval_s == 120
Interval(l) == IF l = "fast" THEN fast_loop_interval_s ELSE slow_loop_interval_s

life_rest == <<life_pc, life_next, task_pc, task_must_cancel, task_ticks, task_issued,
               task_handed, ws_to_send>>
other_than_tick == <<filter_vars, guard_vars, rank_vars, ims_vars, db_vars, act_vars,
                     life_rest, feed_vars>>

\* app.py 98 / 132: asyncio.sleep returns after the interval; the task awaits
\* get_current_state()
TickWake ==
    /\ tick_pc = "sleep"
    /\ n_ticks < MaxLoopTicks
    /\ n_ticks' = n_ticks + 1
    /\ now' = now + Interval(loop)
    /\ tick_pc' = "get_current_state"
    /\ tick_map_before' = last_action_ts
    /\ tick_caught' = ""
    /\ UNCHANGED <<loop, last_action_ts, global_kill_switch, current_state, proposal,
                   returned_at, issued_at, gap, iter_used, iter_left,
                   active_connections>>

\* routes_state.py 81-89: there are rollups, and `sum(r.ts for r in rollups)`
\* adds datetimes to 0: TypeError, caught at app.py 119 / 153
StateRaises ==
    /\ tick_pc = "get_current_state"
    /\ tick_pc' = "sleep"
    /\ tick_caught' = "TypeError"
    /\ UNCHANGED <<loop_vars, tick_map_before, iter_used, iter_left, active_connections>>

\* routes_state.py 85-86, app.py 102-117 / 136-151: there are no rollups and
\* get_current_state() returns {}; evaluate() or optimize() runs on it; with
\* a proposal the task calls broadcast_event, which returns at once when
\* nobody is connected (ws.py 31-32) and otherwise starts iterating the set
\* and awaits the first send_text
StateReturns ==
    /\ tick_pc = "get_current_state"
    /\ LET r == IF loop = "fast"
                THEN FastResult(FastPlanOf[EmptyState], last_action_ts,
                                global_kill_switch, now)
                ELSE SlowResult(SlowPlanOf[EmptyState], last_action_ts,
                                global_kill_switch, now)
       IN  /\ Call(r)
           /\ IF r.ret = None \/ active_connections = 0
              THEN tick_pc' = "sleep" /\ UNCHANGED <<iter_used, iter_left>>
              ELSE /\ tick_pc' = "send_text"
                   /\ iter_used' = active_connections
                   /\ iter_left' = active_connections - 1
    /\ UNCHANGED <<tick_map_before, tick_caught, active_connections>>

\* ws.py 37-46: a send_text returned (or raised into the inner except) and
\* the set is the size it had: the iterator yields the next connection, or
\* is exhausted and broadcast returns
SendReturns ==
    /\ tick_pc = "send_text"
    /\ active_connections = iter_used
    /\ IF iter_left = 0
       THEN tick_pc' = "sleep" /\ UNCHANGED iter_left
       ELSE tick_pc' = tick_pc /\ iter_left' = iter_left - 1
    /\ UNCHANGED <<loop_vars, tick_map_before, tick_caught, iter_used,
                   active_connections>>

\* ws.py 37: a client connected while the send was awaited; the set iterator
\* finds the set's size changed and raises RuntimeError outside the inner
\* try; it propagates out of broadcast_event to app.py 119 / 153
BroadcastRaises ==
    /\ tick_pc = "send_text"
    /\ active_connections # iter_used
    /\ tick_pc' = "sleep"
    /\ tick_caught' = "RuntimeError"
    /\ UNCHANGED <<loop_vars, tick_map_before, iter_used, iter_left, active_connections>>

InitTick ==
    /\ LoopInit
    /\ TickInit
    /\ LifeInit
    /\ FilterIdle /\ GuardIdle /\ RankIdle /\ ImsIdle /\ DbIdle /\ ActIdle /\ FeedIdle

NextTick ==
    \/ TickWake /\ UNCHANGED other_than_tick
    \/ StateRaises /\ UNCHANGED other_than_tick
    \/ StateReturns /\ UNCHANGED other_than_tick
    \/ SendReturns /\ UNCHANGED other_than_tick
    \/ BroadcastRaises /\ UNCHANGED other_than_tick
    \/ Connect /\ UNCHANGED other_than_life

SpecTick == InitTick /\ [][NextTick]_vars

-----------------------------------------------------------------------------
\* POST /ims/train and the load of the active model
\* (api/routes_ims.py, api/app.py 64-80)
\*
\* Every handler has a session of its own (get_db).  A handler is suspended
\* only at its awaits: the select of the active rows (line 111) and the
\* commit (line 117), which flushes the UPDATEs of the rows it read and the
\* INSERT of its new row in one transaction.  A statement sees the rows
\* committed when it executes.

other_than_db == <<filter_vars, loop_vars, guard_vars, rank_vars, ims_vars, life_vars,
                   act_vars, tick_vars, feed_vars>>

ActiveIds(models) == {m.model_id : m \in {x \in models : x.is_active}}

\* routes_ims.py 43-111: the request is read, the trainer trained, the row
\* built with the model_id of the current second and is_active = True, and
\* the select of the active rows is sent
TrainRequest(h, model_id) ==
    /\ h_pc[h] = "idle"
    /\ h_pc' = [h_pc EXCEPT ![h] = "execute"]
    /\ h_model_id' = [h_model_id EXCEPT ![h] = model_id]
    /\ UNCHANGED <<db_models, h_old, reader_seen>>

\* routes_ims.py 111-117: the select executes; the handler marks the rows
\* it got inactive in its session, adds its row and sends the commit
SelectExecutes(h) ==
    /\ h_pc[h] = "execute"
    /\ h_old' = [h_old EXCEPT ![h] = ActiveIds(db_models)]
    /\ h_pc' = [h_pc EXCEPT ![h] = "commit"]
    /\ UNCHANGED <<db_models, h_model_id, reader_seen>>

\* the rows of the table after the transaction of a handler
Committed(models, old, model_id) ==
    {[model_id |-> m.model_id,
      is_active |-> IF m.model_id \in old THEN FALSE ELSE m.is_active] : m \in models}
        \cup {[model_id |-> model_id, is_active |-> TRUE]}

\* routes_ims.py 117: the commit executes; model_id is unique
\* (storage/models.py 63), so a second row of the same second fails the
\* transaction, which get_db rolls back
CommitExecutes(h) ==
    /\ h_pc[h] = "commit"
    /\ IF \E m \in db_models : m.model_id = h_model_id[h]
       THEN /\ h_pc' = [h_pc EXCEPT ![h] = "failed"]
            /\ UNCHANGED db_models
       ELSE /\ h_pc' = [h_pc EXCEPT ![h] = "returned"]
            /\ db_models' = Committed(db_models, h_old[h], h_model_id[h])
    /\ UNCHANGED <<h_model_id, h_old, reader_seen>>

\* app.py 66-69: ims_mms_loop_task selects the active rows
LoadActive ==
    /\ reader_seen' = Some([trained |-> db_models # {},
                            active |-> ActiveIds(db_models)])
    /\ reader_seen' # reader_seen
    /\ UNCHANGED <<db_models, h_pc, h_model_id, h_old>>

InitRetrain ==
    /\ DbInit /\ LifeIdle /\ ActIdle /\ CoreIdle /\ RankIdle /\ ImsIdle /\ TickIdle
    /\ FeedIdle

NextRetrain ==
    \/ \E h \in Handlers, model_id \in 1..MaxModelIds :
          TrainRequest(h, model_id) /\ UNCHANGED other_than_db
    \/ \E h \in Handlers : SelectExecutes(h) /\ UNCHANGED other_than_db
    \/ \E h \in Handlers : CommitExecutes(h) /\ UNCHANGED other_than_db
    \/ LoadActive /\ UNCHANGED other_than_db

SpecRetrain == InitRetrain /\ [][NextRetrain]_vars

-----------------------------------------------------------------------------
\* POST /actions/apply and the mock executors
\* (api/routes_actions.py, optimizer/executors/__init__.py)

MaxActions == 2
MaxClockSteps == 2

\* a function with one more (or one replaced) entry
Put(f, k, v) == [x \in DOMAIN f \cup {k} |-> IF x = k THEN v ELSE f[x]]
Min(a, b) == IF a <= b THEN a ELSE b
Max(a, b) == IF a >= b THEN a ELSE b

\* SchedulerExecutor.increase_batch_window
IncreaseBatchWindow(ex, delta_ms) ==
    [executor |-> [ex EXCEPT !.current_batch_window_ms = @ + delta_ms],
     status |-> "applied"]

\* SchedulerExecutor.shift_traffic
RECURSIVE ShiftEach(_, _, _)
ShiftEach(dist, racks, share) ==
    IF racks = <<>> THEN dist
    ELSE ShiftEach(Put(dist, Head(racks),
                       (IF Head(racks) \in DOMAIN dist THEN dist[Head(racks)] ELSE 0) + share),
                   Tail(racks), share)
ShiftTraffic(ex, traffic_pct, target_racks) ==
    [executor |-> IF target_racks = <<>> THEN ex
                  ELSE [ex EXCEPT !.traffic_distribution =
                           ShiftEach(@, target_racks, traffic_pct \div Len(target_racks))],
     status |-> "applied"]

\* SchedulerExecutor.pause_jobs: int(100 * max_pause_pct / 100) jobs are
\* appended to the list
PauseJobs(ex, priority_threshold, max_pause_pct) ==
    [executor |-> [ex EXCEPT !.paused_jobs = @ + (100 * max_pause_pct) \div 100],
     status |-> "applied"]

\* BMSExecutor._check_rate_limit
CheckRateLimit(ex, device, t) ==
    ~ (device \in DOMAIN ex.last_write /\ t - ex.last_write[device] < write_rate_limit_s)

\* BMSExecutor.set_supply_temp
SetSupplyTemp(ex, delta_c, t) ==
    IF ~ CheckRateLimit(ex, "crac_supply", t)
    THEN [executor |-> ex, status |-> "rate_limited"]
    ELSE [executor |-> [ex EXCEPT !.supply_temp_c = @ + delta_c,
                                  !.last_write = Put(@, "crac_supply", t)],
          status |-> "applied"]

\* BMSExecutor.set_fan_rpm
SetFanRpm(ex, delta_pct, t) ==
    IF ~ CheckRateLimit(ex, "fan_rpm", t)
    THEN [executor |-> ex, status |-> "rate_limited"]
    ELSE [executor |-> [ex EXCEPT !.fan_rpm_pct = Max(45, Min(100, @ + delta_pct)),
                                  !.last_write = Put(@, "fan_rpm", t)],
          status |-> "applied"]

\* BMSExecutor.set_pump_rpm
SetPumpRpm(ex, delta_pct, t) ==
    IF ~ CheckRateLimit(ex, "cdu_pump", t)
    THEN [executor |-> ex, status |-> "rate_limited"]
    ELSE [executor |-> [ex EXCEPT !.pump_rpm_pct = Max(40, Min(85, @ + delta_pct)),
                                  !.last_write = Put(@, "cdu_pump", t)],
          status |-> "applied"]

\* routes_actions.py 69: whether apply_action goes on to the executors
ExecutesInAnyMode(mode) == TRUE
ExecutesIn(mode) == mode = "closed_loop"

\* the parameters an action reads with params[...] (a KeyError when absent)
RequiredParams(action) ==
    CASE action = "increase_batch_window" -> {"delta_ms"}
      [] action = "shift_traffic_to_cool_row" -> {"traffic_pct"}
      [] action = "pause_low_priority_jobs" -> {"priority_threshold"}
      [] action = "decrease_fan_rpm" -> {"delta_pct"}
      [] action = "increase_supply_temp" -> {"delta_c"}
      [] action = "increase_cdu_pump" -> {"delta_pct"}
      [] OTHER -> {}
KnownActions ==
    {"increase_batch_window", "shift_traffic_to_cool_row", "pause_low_priority_jobs",
     "decrease_fan_rpm", "increase_supply_temp", "increase_cdu_pump"}

\* routes_actions.py 70-103: the closed_loop branch: the executor called,
\* the executors it leaves and the status of the record
Dispatch(request, sched, bms, t) ==
    LET a == request.action
        ps == request.params
        none == [invoked |-> FALSE, scheduler |-> sched, bms |-> bms,
                 status |-> "failed", raised |-> "HTTPException 500"]
        OfSched(r) == [invoked |-> TRUE, scheduler |-> r.executor, bms |-> bms,
                       status |-> r.status, raised |-> ""]
        OfBms(r) == [invoked |-> TRUE, scheduler |-> sched, bms |-> r.executor,
                     status |-> r.status, raised |-> ""]
    IN  IF a \notin KnownActions \/ ~ (RequiredParams(a) \subseteq DOMAIN ps) THEN none
        ELSE CASE a = "increase_batch_window" ->
                      OfSched(IncreaseBatchWindow(sched, ps.delta_ms))
               [] a = "shift_traffic_to_cool_row" ->
                      OfSched(ShiftTraffic(sched, ps.traffic_pct,
                                  IF "target_racks" \in DOMAIN ps THEN ps.target_racks
                                  ELSE <<>>))
               [] a = "pause_low_priority_jobs" ->
                      OfSched(PauseJobs(sched, ps.priority_threshold,
                                  IF "max_pause_pct" \in DOMAIN ps THEN ps.max_pause_pct
                                  ELSE 10))
               [] a = "decrease_fan_rpm" -> OfBms(SetFanRpm(bms, ps.delta_pct, t))
               [] a = "increase_supply_temp" -> OfBms(SetSupplyTemp(bms, ps.delta_c, t))
               [] a = "increase_cdu_pump" -> OfBms(SetPumpRpm(bms, ps.delta_pct, t))

\* requests: the six actions with the parameters policies.py gives them, one
\* without its parameter and one of an unknown action
ActionRequests ==
    {[action |-> "increase_batch_window", params |-> [delta_ms |-> 30]],
     [action |-> "shift_traffic_to_cool_row",
      params |-> [traffic_pct |-> 10, target_racks |-> <<"R-A-01", "R-A-02">>]],
     [action |-> "pause_low_priority_jobs", params |-> [priority_threshold |-> 3]],
     [action |-> "decrease_fan_rpm", params |-> [delta_pct |-> -5]],
     [action |-> "increase_supply_temp", params |-> [delta_c |-> 5]],
     [action |-> "increase_cdu_pump", params |-> [delta_pct |-> 5]],
     [action |-> "decrease_fan_rpm", params |-> <<>>],
     [action |-> "reboot_rack", params |-> <<>>]}

loop_rest == <<loop, last_action_ts, n_ticks, current_state, proposal, returned_at,
               issued_at, gap>>
other_than_act == <<filter_vars, loop_rest, guard_vars, rank_vars, ims_vars, life_vars,
                    db_vars, tick_vars, feed_vars>>

\* apply_action(request)
ApplyAction(request) ==
    /\ Len(audit) < MaxActions
    /\ IF global_kill_switch
       THEN /\ response' = Some([raised |-> "HTTPException 403"])
            /\ UNCHANGED <<scheduler_executor, bms_executor, executor_calls, audit>>
       ELSE IF ExecutesIn(default_mode)
       THEN LET d == Dispatch(request, scheduler_executor, bms_executor, now)
            IN  /\ scheduler_executor' = d.scheduler
                /\ bms_executor' = d.bms
                /\ executor_calls' = executor_calls + (IF d.invoked THEN 1 ELSE 0)
                /\ audit' = Append(audit, [action |-> request.action,
                                           mode |-> default_mode, status |-> d.status])
                /\ response' = Some(IF d.raised # "" THEN [raised |-> d.raised]
                                    ELSE [raised |-> "", mode |-> default_mode,
                                          status |-> d.status,
                                          execution_result |-> Some(d.status)])
       ELSE /\ audit' = Append(audit, [action |-> request.action,
                                       mode |-> default_mode, status |-> "advisory"])
            /\ response' = Some([raised |-> "", mode |-> default_mode,
                                 status |-> "advisory", execution_result |-> None])
            /\ UNCHANGED <<scheduler_executor, bms_executor, executor_calls>>
    /\ UNCHANGED <<default_mode, global_kill_switch, now>>

\* routes_mode.py 17-27: POST /mode
SetMode(mode) ==
    /\ default_mode # mode
    /\ default_mode' = mode
    /\ UNCHANGED <<scheduler_executor, bms_executor, executor_calls, audit, response,
                   global_kill_switch, now>>

\* time passes, half a write_rate_limit_s at a time
AdvanceClock ==
    /\ now < MaxClockSteps * (write_rate_limit_s \div 2)
    /\ now' = now + write_rate_limit_s \div 2
    /\ UNCHANGED <<act_vars, global_kill_switch>>

InitActions ==
    /\ ActInit
    /\ global_kill_switch \in BOOLEAN
    /\ loop = "slow"
    /\ last_action_ts = <<>>
    /\ now = 0
    /\ n_ticks = 0
    /\ current_state = None
    /\ proposal = None
    /\ returned_at = "init"
    /\ issued_at = <<>>
    /\ gap = None
    /\ FilterIdle /\ GuardIdle /\ RankIdle /\ ImsIdle /\ LifeIdle /\ DbIdle /\ TickIdle
    /\ FeedIdle

NextActions ==
    \/ \E request \in ActionRequests : ApplyAction(request) /\ UNCHANGED other_than_act
    \/ \E mode \in {"advisory", "closed_loop"} : SetMode(mode) /\ UNCHANGED other_than_act
    \/ AdvanceClock /\ UNCHANGED other_than_act

SpecActions == InitActions /\ [][NextActions]_vars

-----------------------------------------------------------------------------
\* Claims

\* a step of update() on a filter with both thresholds set
ThresholdedUpdate ==
    n_updates' = n_updates + 1 /\ tau_fast # None /\ tau_persist # None

\* the last n entries of trace' all have the EMA strictly above the
\* tau_persist then in force
HighRun(n) ==
    /\ Len(trace') >= n
    /\ \A i \in (Len(trace') - n + 1)..Len(trace') :
          trace'[i].ema > trace'[i].tau_persist

\* C1: an update() takes the state from transient to persistent only if the
\* counter it has just stepped satisfies consecutive_high >= persist_ticks,
\* i.e. the EMA was strictly above the tau_persist in force on each of the
\* last persist_ticks updates, with update_thresholds() interleaved anywhere.
C1_PersistentOnlyAfterHighRun ==
    [][(ThresholdedUpdate /\ state = "transient" /\ state' = "persistent")
         => (consecutive_high' >= persist_ticks /\ HighRun(persist_ticks))]_vars

\* a filter that went persistent over updates made under two different
\* tau_persist values
C1_Witness ==
    /\ state = "persistent"
    /\ persist_ticks = 2
    /\ consecutive_high >= persist_ticks
    /\ Len(trace) >= 2
    /\ trace[Len(trace)].tau_persist # trace[Len(trace) - 1].tau_persist
    /\ history[Len(history)].state = "persistent"
    /\ history[Len(history) - 1].state = "transient"

\* C2: an update() takes the state from persistent to transient only if the
\* counter it has just stepped satisfies consecutive_low >= persist_ticks; a
\* persistent filter whose EMA is at or above tau_fast after the update stays
\* persistent, also when the EMA is no longer above tau_persist.
C2_TransientOnlyAfterLowRun ==
    [][(ThresholdedUpdate /\ state = "persistent")
         => /\ (state' = "transient" => consecutive_low' >= persist_ticks)
            /\ (ema' >= Val(tau_fast) => state' = "persistent")]_vars

\* a filter that stayed persistent on an update whose EMA lay between the
\* thresholds and then recovered to transient
C2_Witness ==
    /\ state = "transient"
    /\ Len(history) >= 3
    /\ history[Len(history)].state = "transient"
    /\ history[Len(history)].consecutive_low >= persist_ticks
    /\ history[Len(history) - 1].state = "persistent"
    /\ history[Len(history) - 1].consecutive_high = 0
    /\ trace[Len(trace) - 1].ema >= trace[Len(trace) - 1].tau_fast
    /\ trace[Len(trace) - 1].ema <= trace[Len(trace) - 1].tau_persist
    /\ history[Len(history) - 2].state = "persistent"

\* every update so far was fed 5.0
AllHigh == \A i \in 1..Len(history) : history[i].raw_deviation = 5000

\* C3: a fresh filter with persist_ticks=6, tau_fast=1.0, tau_persist=2.0 fed
\* update(5.0) repeatedly returns transient on each of the first 5 updates
\* and persistent on the 6th.
C3_SixthTickFlips ==
    AllHigh =>
        /\ \A i \in 1..Len(history) :
              history[i].state = IF i < 6 THEN "transient" ELSE "persistent"
        /\ Len(history) = n_updates
        /\ (n_updates > 0 => Val(update_result).state = state)
        /\ state = IF n_updates < 6 THEN "transient" ELSE "persistent"

C3_Witness ==
    /\ AllHigh
    /\ n_updates = 6
    /\ Val(update_result).state = "persistent"
    /\ history[5].state = "transient"

\* C4: the same filter with alpha = 0.3, fed one update(5.0) and then any
\* number of update(0.1), is transient after every update.
C4_SingleSpikeNeverFlips ==
    /\ state = "transient"
    /\ update_result # None => Val(update_result).state = "transient"
    /\ \A i \in 1..Len(history) : history[i].state = "transient"

\* the spike has long passed: the EMA has fallen below tau_fast for more
\* than persist_ticks updates
C4_Witness ==
    /\ n_updates > HistoryMaxLen
    /\ alpha = mms_ema_alpha
    /\ ema < Val(tau_fast)
    /\ consecutive_low > persist_ticks
    /\ Val(update_result).raw_deviation = 100
    /\ Val(update_result).state = "transient"

\* a step that is one evaluate() / optimize() call; the snapshot passed is
\* the unprimed current_state
FastCall == loop = "fast" /\ current_state # None /\ current_state' = None
SlowCall == loop = "slow" /\ current_state # None /\ current_state' = None

\* the candidate the instance selects for snapshot s (None if it selects none)
Selected(s) == IF loop = "fast" THEN FastPlan(s).best
               ELSE IF SlowPlan(s).skip # "no" THEN None ELSE SlowPlan(s).best

\* a proposal for this key was returned less than the window ago
RecentlyIssued(key) ==
    key \in DOMAIN issued_at /\ now - issued_at[key] < Window(loop)

\* C5: within one controller instance two proposals returned for the same
\* (action, target) key are at least the instance's window apart (60 s fast,
\* write_rate_limit_s slow); a call whose top-ranked candidate has a key
\* proposed less than the window ago returns no proposal.
C5_RateLimit ==
    [][(FastCall \/ SlowCall) =>
          LET best == Selected(Val(current_state))
          IN  /\ (proposal' # None /\ gap' # None) => Val(gap') >= Window(loop)
              /\ (best # None /\ RecentlyIssued(TargetKey(Val(best))))
                    => proposal' = None]_vars

\* a slow-loop call suppressed in the middle of the window
C5_Witness ==
    /\ loop = "slow"
    /\ returned_at = "rate_limited"
    /\ proposal = None
    /\ \E k \in DOMAIN issued_at :
          /\ now - issued_at[k] > 0
          /\ now - issued_at[k] < write_rate_limit_s
          /\ last_action_ts[k] = issued_at[k]

\* C6: while the kill switch is engaged every evaluate() and optimize() call
\* returns no proposal, for every snapshot, and leaves the rate-limit map
\* unchanged.
C6_KillSwitch ==
    [][((FastCall \/ SlowCall) /\ global_kill_switch) =>
          (proposal' = None /\ last_action_ts' = last_action_ts)]_vars

\* a call stopped by the kill switch on an instance that had issued before
C6_Witness ==
    /\ global_kill_switch
    /\ returned_at = "kill_switch"
    /\ proposal = None
    /\ last_action_ts # <<>>

\* the snapshot's mms_state / avg_latency_ms as the loops read them
IsPersistent(s) == "mms_state" \in DOMAIN s /\ s.mms_state = "persistent"
NearSla(s) ==
    "avg_latency_ms" \in DOMAIN s /\ s.avg_latency_ms * 100 > 95 * sla_latency_ms

\* C7: optimize() returns no proposal for every snapshot with mms_state
\* persistent and for every one with avg_latency_ms > 0.95 * sla_latency_ms,
\* and leaves the rate-limit map unchanged.
C7_SlowSkipsUnstable ==
    [][(SlowCall /\ (IsPersistent(Val(current_state)) \/ NearSla(Val(current_state))))
          => (proposal' = None /\ last_action_ts' = last_action_ts)]_vars

\* the slow loop, kill switch off, skipped a call on an instance that had
\* issued before
C7_Witness ==
    /\ loop = "slow"
    /\ ~ global_kill_switch
    /\ returned_at \in {"persistent", "latency"}
    /\ proposal = None
    /\ last_action_ts # <<>>

\* the four guardrails as section 4.4 states them
SurvivesAll(c, s) ==
    /\ s.max_inlet_c + c.pred_inlet_change_c <= inlet_max_c
    /\ s.avg_latency_ms + c.pred_latency_impact_ms <= sla_latency_ms
    /\ ~ (c.pred_inlet_change_c > 100 /\ 10 * s.ims_deviation > 7 * s.tau_persist)
    /\ ~ (c.risk_score > 60 /\ s.recent_rollback)

\* C8: _apply_guardrails returns, in input order, the candidates for which
\* all four guardrails hold; no candidate whose predicted inlet exceeds
\* inlet_max_c is in the output.
C8_GuardrailFilter ==
    g_safe # None =>
        /\ Val(g_safe) = SelectSeq(g_candidates, LAMBDA c : SurvivesAll(c, g_state))
        /\ \A i \in 1..Len(Val(g_safe)) :
              g_state.max_inlet_c + Val(g_safe)[i].pred_inlet_change_c <= inlet_max_c

\* a list of which the filter kept one candidate and dropped the other for
\* its predicted inlet
C8_Witness ==
    /\ g_safe # None
    /\ Len(g_candidates) = 2
    /\ Len(Val(g_safe)) = 1
    /\ g_state.max_inlet_c + g_candidates[1].pred_inlet_change_c > inlet_max_c
    /\ Val(g_safe)[1] = g_candidates[2]

\* the snapshot as _apply_guardrails reads it, defaults filled in
AsRead(s) ==
    [max_inlet_c |-> Get(s, "max_inlet_c", 2200),
     avg_latency_ms |-> Get(s, "avg_latency_ms", 1800),
     ims_deviation |-> Get(s, "ims_deviation", 0),
     tau_persist |-> Get(s, "tau_persist", 2000),
     recent_rollback |-> Get(s, "recent_rollback", FALSE)]

\* the proposal was built from candidate c
BuiltFrom(p, c) ==
    /\ p.action = c.action
    /\ p.params = c.params
    /\ p.target = c.target
    /\ p.pred_saving_pct = c.pred_saving_pct
    /\ p.pred_latency_impact_ms = c.pred_latency_impact_ms
    /\ p.reason = c.reason

\* the snapshot is near a limit: inlet within 0.5 degC of inlet_max_c or
\* latency above 0.95 * SLA
NearLimits(s) ==
    AsRead(s).max_inlet_c >= inlet_max_c - 50 \/ NearSla(s)

C10_FastPersistentProposes ==
    [][(/\ FastCall
        /\ ~ global_kill_switch
        /\ IsPersistent(Val(current_state))
        /\ LET best == Selected(Val(current_state))
           IN  \A k \in DOMAIN last_action_ts :
                  (best # None /\ k = TargetKey(Val(best)))
                     => now - last_action_ts[k] >= FastRateLimit)
          => /\ proposal' # None
             /\ Val(proposal').loop = "fast"
             /\ \E i \in 1..Len(Val(proposal').reason) :
                   Val(proposal').reason[i] # ""]_vars

\* the fast loop proposing on a persistent snapshot that trips no other
\* trigger
C10_Witness ==
    /\ loop = "fast"
    /\ proposal # None
    /\ Val(proposal).loop = "fast"
    /\ Val(proposal).reason[1] = "MMS state is PERSISTENT"
    /\ Val(proposal).action = "pause_low_priority_jobs"

\* the score of section 4.3, score = w_save*savings - w_risk*risk -
\* w_lat*|latency_impact|/100, in 1/100000, the weights in tenths
SpecScore(c, w_save, w_risk, w_lat) ==
    w_save * c.pred_saving_pct * 100 - w_risk * c.risk_score * 100
    - w_lat * Abs(c.pred_latency_impact_ms) * 10

\* the three weights of that formula for the weights argument passed
SpecScoreOf(c, weights) ==
    IF weights = None THEN SpecScore(c, 10, 8, 3)
    ELSE SpecScore(c, Val(weights).saving_pct, -Val(weights).risk_score,
                   -Val(weights).latency_impact)

\* the candidate without the attribute ranking adds
Unscored(c) == [k \in DOMAIN c \ {"score"} |-> c[k]]

\* the bijections of 1..n
Bijections(n) ==
    {f \in [1..n -> 1..n] : \A i, j \in 1..n : f[i] = f[j] => i = j}

\* C11: rank_candidates returns a permutation of its input in non-increasing
\* order of score = w_save*savings - w_risk*risk - w_lat*|latency|/100,
\* candidates of equal score in their input order, and a second call with
\* the same list and weights returns the same order.
C11_RankIsStableSort ==
    r_ranked # None =>
        LET out == Val(r_ranked)
            n == Len(r_input)
        IN  /\ Len(out) = n
            /\ \E f \in Bijections(n) :
                  /\ \A i \in 1..n : Unscored(out[i]) = r_input[f[i]]
                  /\ \A i \in 1..(n - 1) :
                        \/ SpecScoreOf(out[i], r_weights) > SpecScoreOf(out[i + 1], r_weights)
                        \/ /\ SpecScoreOf(out[i], r_weights) = SpecScoreOf(out[i + 1], r_weights)
                           /\ f[i] < f[i + 1]
            /\ r_prev # None => r_ranked = r_prev

\* two calls made on a list of three in which the first and last candidate
\* tie, differ, and a better one stood between them
C11_Witness ==
    /\ r_calls = 2
    /\ Len(r_input) = 3
    /\ r_input[1] # r_input[3]
    /\ SpecScoreOf(r_input[1], r_weights) = SpecScoreOf(r_input[3], r_weights)
    /\ SpecScoreOf(r_input[2], r_weights) > SpecScoreOf(r_input[1], r_weights)
    /\ Unscored(Val(r_ranked)[2]) = r_input[1]
    /\ Unscored(Val(r_ranked)[3]) = r_input[3]

\* positions i < j of the returned list hold candidates of equal savings,
\* the later one with the lower risk
RiskInversion(out, i, j) ==
    /\ i < j
    /\ out[i].pred_saving_pct = out[j].pred_saving_pct
    /\ out[i].risk_score > out[j].risk_score

C13_RankLeavesInputUnchanged ==
    r_calls > 0 => r_candidates = r_input

\* C14: a trainer on which no train() has completed has both thresholds
\* unset, and no scorer exists on a trainer with an unset threshold: its
\* construction raises, so no scoring call is ever made on it.
C14_UntrainedHasNoScorer ==
    /\ t_trained = 0 => t_tau_fast = None /\ t_tau_persist = None
    /\ (t_tau_fast = None \/ t_tau_persist = None) =>
          scorer = None /\ s_batch = None /\ s_single = <<>>
C14_Witness ==
    /\ t_trained = 0
    /\ t_raised = "IMSNotTrainedException: IMS model has not been trained"
    /\ t_tau_fast = None
    /\ scorer = None

\* C15: a train() whose training set (the nominal-filtered rows, or all rows
\* when the filter is skipped) has fewer than 100 rows raises the
\* insufficient-samples error and leaves scaler, clusters and thresholds as
\* they were.
C15_TooFewSamplesFailsAndKeepsTrainer ==
    [][(t_n_samples' # None /\ Val(t_n_samples') < MinSamples) =>
          /\ t_raised' = "IMSNotTrainedException: Insufficient nominal samples"
          /\ trainer_vars' = trainer_vars
          /\ t_trained' = t_trained]_vars
C15_Witness ==
    /\ t_n_samples # None
    /\ Val(t_n_samples) = MinSamples - 1
    /\ t_raised = "IMSNotTrainedException: Insufficient nominal samples"
    /\ t_trained > 0
    /\ t_tau_persist # None

\* C16: train() never completes leaving tau_persist < tau_fast: whenever a
\* train() has returned, tau_persist >= tau_fast >= 0.
C16_TrainedThresholdsOrdered ==
    t_trained > 0 =>
        /\ Val(t_tau_fast) >= 0
        /\ Val(t_tau_persist) >= Val(t_tau_fast)

\* C17: score_batch is the order-preserving vectorized form of score_sample:
\* entry i of score_batch(samples) is what score_sample(samples[i]) returns,
\* whatever else is in the batch.
C17_BatchIsPointwiseSample ==
    s_batch # None =>
        \A i \in 1..Len(s_samples) :
            s_samples[i] \in DOMAIN s_single =>
                /\ Val(s_batch).raised = s_single[s_samples[i]].raised
                /\ Val(s_batch).raised = "" =>
                      Val(s_batch).scores[i] = s_single[s_samples[i]].score

\* C18: shutdown lets an in-flight tick run to completion: a controller
\* task that has ended, and so every task once lifespan has returned, has
\* handed over every proposal it selected.
C18_ShutdownDrainsTicks ==
    /\ \A t \in TaskNames : task_pc[t] = "done" => task_issued[t] = task_handed[t]
    /\ life_pc = "stopped" => \A t \in TaskNames : task_issued[t] = task_handed[t]

\* C19: once a training has been committed the table holds exactly one
\* active model, whatever the interleaving of the handlers, and every load
\* of the active model finds exactly one.
C19_ExactlyOneActiveModel ==
    /\ db_models # {} => Cardinality(ActiveIds(db_models)) = 1
    /\ (reader_seen # None /\ Val(reader_seen).trained) =>
          Cardinality(Val(reader_seen).active) = 1

\* C20: an apply_action in advisory mode invokes no executor operation,
\* leaves both executors as they were and ends its audit record with status
\* advisory; an executor is invoked only in closed_loop mode, and then the
\* record ends with the status the executor returned.
Applied == Len(audit') = Len(audit) + 1
AdvisoryStep ==
    (Applied /\ default_mode = "advisory") =>
        /\ executor_calls' = executor_calls
        /\ scheduler_executor' = scheduler_executor
        /\ bms_executor' = bms_executor
        /\ audit'[Len(audit')].status = "advisory"
        /\ Val(response').execution_result = None
ExecutorStep ==
    (\/ executor_calls' # executor_calls
     \/ scheduler_executor' # scheduler_executor
     \/ bms_executor' # bms_executor) =>
        /\ Applied
        /\ default_mode = "closed_loop"
        /\ executor_calls' = executor_calls + 1
        /\ audit'[Len(audit')].status \in {"applied", "rate_limited"}
        /\ Val(response').execution_result = Some(audit'[Len(audit')].status)
C20_AdvisoryHasNoSideEffect == [][AdvisoryStep /\ ExecutorStep]_vars
C20_Witness ==
    /\ Len(audit) = 2
    /\ audit[1].mode = "closed_loop"
    /\ audit[1].status = "applied"
    /\ audit[2].mode = "advisory"
    /\ audit[2].status = "advisory"
    /\ audit[2].action = "decrease_fan_rpm"
    /\ bms_executor.fan_rpm_pct = 60
    /\ executor_calls = 1

\* C21: the first update() since construction or reset() sets the EMA to the
\* deviation passed in; every later update() sets it to
\* alpha*deviation + (1-alpha)*previous EMA, whatever the previous EMA is.
\* (history holds one entry per update since construction or reset.)
C21_EmaRecurrence ==
    [][ThresholdedUpdate =>
          ema' = (IF history = <<>>
                  THEN Val(update_result').raw_deviation
                  ELSE RoundMilli(alpha * Val(update_result').raw_deviation
                                    + (Milli - alpha) * ema))]_vars

\* C22: update_thresholds changes only the two thresholds: a step that
\* changes a threshold leaves the EMA, the state, both counters and the
\* history as they were.
C22_UpdateThresholdsFrame ==
    [][(tau_fast' # tau_fast \/ tau_persist' # tau_persist) =>
          /\ ema' = ema
          /\ state' = state
          /\ consecutive_high' = consecutive_high
          /\ consecutive_low' = consecutive_low
          /\ history' = history
          /\ alpha' = alpha
          /\ persist_ticks' = persist_ticks]_vars
\* the thresholds were swapped on a persistent filter with a running EMA
C22_Witness ==
    /\ trace # <<>>
    /\ trace[Len(trace)].tau_persist # Val(tau_persist)
    /\ ema > 0
    /\ state = "persistent"
    /\ consecutive_high > 0
    /\ history # <<>>
    /\ history[Len(history)].ema = ema

\* what a freshly constructed filter with the parameters a and pt returns on
\* its i-th update, fed the deviations recorded in hist under the thresholds
\* recorded in tr
RECURSIVE FreshRun(_, _, _, _, _)
FreshRun(a, pt, hist, tr, i) ==
    LET prev == IF i = 1
                THEN [ema |-> 0, state |-> "transient", consecutive_high |-> 0,
                      consecutive_low |-> 0]
                ELSE FreshRun(a, pt, hist, tr, i - 1)
        e == NextEma(a, prev.ema, hist[i].raw_deviation)
        ch == NextHigh(e, tr[i].tau_persist, prev.consecutive_high)
        cl == NextLow(e, tr[i].tau_fast, tr[i].tau_persist, prev.consecutive_low)
    IN  [ema |-> e, state |-> NextState(prev.state, ch, cl, pt),
         raw_deviation |-> hist[i].raw_deviation,
         consecutive_high |-> ch, consecutive_low |-> cl]

\* the history holds the updates since construction or the last reset(); the
\* thresholds they ran under are the last Len(history) entries of trace
SinceReset == SubSeq(trace, Len(trace) - Len(history) + 1, Len(trace))
SameAsFresh ==
    \A i \in 1..Len(history) :
        history[i] = FreshRun(alpha, persist_ticks, history, SinceReset, i)
ResetClears ==
    (history # <<>> /\ history' = <<>>) =>
        /\ ema' = 0
        /\ state' = "transient"
        /\ consecutive_high' = 0
        /\ consecutive_low' = 0
        /\ UNCHANGED <<alpha, persist_ticks, tau_fast, tau_persist>>

\* C23: reset() yields EMA 0, state transient, both counters 0 and an empty
\* history and leaves thresholds, alpha and persist_ticks alone; the updates
\* made after it return what the same updates return on a freshly
\* constructed filter with the same parameters.
C23_ResetIsFresh == []SameAsFresh /\ [][ResetClears]_vars
\* a filter that had a running EMA was reset and updated again
C23_Witness ==
    /\ history # <<>>
    /\ Len(trace) > Len(history)
    /\ trace[Len(trace) - Len(history)].ema > 0
    /\ history[1].ema = history[1].raw_deviation
    /\ history[1].raw_deviation > 0
    /\ ema = history[Len(history)].ema

\* an update() made while a threshold is unset
UnsetUpdate == n_updates' = n_updates + 1 /\ (tau_fast = None \/ tau_persist = None)
UnsetUpdateIsInert ==
    UnsetUpdate =>
        /\ UNCHANGED <<ema, state, consecutive_high, consecutive_low, history>>
        /\ update_result' # None
        /\ DOMAIN Val(update_result') = {"ema", "state", "raw_deviation"}
        /\ Val(update_result').state = "transient"
        /\ Val(update_result').ema = Val(update_result').raw_deviation
\* no update has run with thresholds, so every report so far is transient
NeverThresholded ==
    trace = <<>> =>
        /\ state = "transient"
        /\ update_result # None => Val(update_result).state = "transient"

\* C29: update() on a filter whose tau_fast or tau_persist is unset changes
\* neither EMA, state, counters nor history and returns state transient with
\* ema equal to the raw deviation, whatever the stored state; a filter that
\* never had thresholds reports transient on every input.
C29_UnsetThresholdsUpdateIsInert == []NeverThresholded /\ [][UnsetUpdateIsInert]_vars
\* a persistent filter with a running EMA lost its thresholds and was updated
C29_Witness ==
    /\ tau_fast = None
    /\ update_result # None
    /\ DOMAIN Val(update_result) = {"ema", "state", "raw_deviation"}
    /\ state = "persistent"
    /\ history # <<>>
    /\ Val(update_result).ema # ema
    /\ Val(update_result).state = "transient"

\* one of the three triggers holds for the snapshot as evaluate() reads it
\* (a missing key reads as its default)
Triggered(s) ==
    \/ Get(s, "ims_deviation", 0) > Get(s, "tau_fast", 1000)
    \/ Get(s, "mms_state", "transient") = "persistent"
    \/ inlet_max_c - Get(s, "max_inlet_c", 2200) < 50

\* C24: evaluate() returns a proposal only if ims_deviation > tau_fast, or
\* mms_state is persistent, or inlet_max_c - max_inlet_c < 0.5; when none of
\* the three holds it returns no proposal and leaves the rate-limit map
\* unchanged.
C24_FastProposesOnlyWhenTriggered ==
    [][FastCall =>
          LET s == Val(current_state)
          IN  /\ proposal' # None => Triggered(s)
              /\ ~ Triggered(s) =>
                    (proposal' = None /\ last_action_ts' = last_action_ts)]_vars

\* an untriggered call, kill switch off, on an instance that had issued
\* before
C24_Witness ==
    /\ loop = "fast"
    /\ ~ global_kill_switch
    /\ returned_at = "no_action"
    /\ proposal = None
    /\ last_action_ts # <<>>

\* the fast-loop proposal p carries candidate c
Carries(p, c) ==
    /\ p.action = c.action
    /\ p.params = c.params
    /\ p.target = c.target
    /\ p.pred_saving_pct = c.pred_saving_pct

\* position i is the top-ranked of the positions pool of cs: no candidate of
\* the pool scores higher and none before it scores as high
TopRanked(cs, pool, i) ==
    /\ i \in pool
    /\ \A j \in pool :
          /\ Score(cs[j], DefaultWeights) <= Score(cs[i], DefaultWeights)
          /\ j < i => Score(cs[j], DefaultWeights) < Score(cs[i], DefaultWeights)

\* the positions of the generated candidates with risk_score < 0.5
LowRisk(cs) == {i \in 1..Len(cs) : cs[i].risk_score < 50}

\* C25: on a triggered fast-loop tick the selected candidate is the
\* top-ranked of the generated candidates with risk_score < 0.5 when there is
\* one; a candidate with risk_score >= 0.5 is proposed only when no generated
\* candidate has risk_score < 0.5, and it is then the top-ranked of all.
C25_FastPrefersLowRisk ==
    [][(FastCall /\ proposal' # None) =>
          LET cs == GenerateCandidates(Val(current_state), "stabilize")
              pool == IF LowRisk(cs) # {} THEN LowRisk(cs) ELSE 1..Len(cs)
          IN  /\ \E i \in pool : TopRanked(cs, pool, i) /\ Carries(Val(proposal'), cs[i])
              /\ \A i \in 1..Len(cs) :
                    (Carries(Val(proposal'), cs[i]) /\ cs[i].risk_score >= 50)
                       => LowRisk(cs) = {}]_vars

\* a persistent snapshot near the inlet limit: the pause candidates (risk
\* 0.7) score highest of all, and the proposal is the best pump increase
C25_Witness ==
    /\ loop = "fast"
    /\ proposal # None
    /\ Val(proposal).action = "increase_cdu_pump"
    /\ \E i \in 1..Len(Val(proposal).reason) :
          Val(proposal).reason[i] = "MMS state is PERSISTENT"

\* the list cs holds a candidate of one of the actions
Emits(cs, actions) == \E i \in 1..Len(cs) : cs[i].action \in actions

\* the preconditions as generate_candidates reads the snapshot
LatencyMargin(s) == Get(s, "avg_latency_ms", 1800) * 100 < sla_latency_ms * 85
ThermalMargin(s) == inlet_max_c - Get(s, "max_inlet_c", 2600)
Elevated(s) ==
    Get(s, "ims_deviation", 0) > 500 \/ Get(s, "mms_state", "transient") = "persistent"

\* the preconditions of the batch-window, traffic-shift and job-pause
\* families, and the non-empty result
GatedOtherThanThermal(s, cs) ==
    /\ Emits(cs, {"increase_batch_window"}) => LatencyMargin(s)
    /\ Emits(cs, {"shift_traffic_to_cool_row", "pause_low_priority_jobs"}) => Elevated(s)
    /\ LatencyMargin(s) => cs # <<>>

\* C26, as stated: candidates of a family are emitted only when its
\* precondition holds: batch-window only if avg_latency_ms < 0.85 * SLA;
\* fan, pump and supply-temperature only if thermal margin (inlet_max_c -
\* max_inlet_c) exists; traffic-shift and job-pause only if deviation is
\* elevated or mms_state is persistent; with latency below 0.85 * SLA the
\* result is non-empty.
C26_FamiliesGated ==
    [][/\ GatedOtherThanThermal(g_state', g_candidates')
       /\ Emits(g_candidates', {"decrease_fan_rpm", "increase_supply_temp",
                                "increase_cdu_pump"})
             => ThermalMargin(g_state') > 0]_vars

\* C26, amended: as above for fan and supply temperature; pump candidates
\* are emitted only if the thermal margin is below 1.0 degC (the inlet is
\* near or over its limit).
C26_FamiliesGatedPumpNearLimit ==
    [][/\ GatedOtherThanThermal(g_state', g_candidates')
       /\ Emits(g_candidates', {"decrease_fan_rpm", "increase_supply_temp"})
             => ThermalMargin(g_state') > 0
       /\ Emits(g_candidates', {"increase_cdu_pump"})
             => ThermalMargin(g_state') < 100]_vars

\* a snapshot over the inlet limit for which only pump candidates came back
C26_Witness ==
    /\ g_state # EmptyState
    /\ g_state.max_inlet_c > inlet_max_c
    /\ g_candidates # <<>>
    /\ \A i \in 1..Len(g_candidates) : g_candidates[i].action = "increase_cdu_pump"

\* the step in which the tick's `except Exception` catches an error
TickFails == tick_caught = "" /\ tick_caught' # ""

\* C27: if anything raises during a scheduled tick (state retrieval,
\* evaluate/optimize, execution or broadcast of the proposal), the error is
\* caught at the loop boundary, the task goes on to its next sleep, and the
\* controller's rate-limit map is as it was before the failed tick.
C27_FailedTickLeavesMap ==
    [][TickFails => (tick_pc' = "sleep" /\ last_action_ts' = tick_map_before)]_vars

\* the map after the call differs from the map before it in the entry of
\* key alone, which holds the time of the call
WrittenOnly(key) ==
    /\ DOMAIN last_action_ts' = DOMAIN last_action_ts \cup {key}
    /\ last_action_ts'[key] = now
    /\ \A k \in DOMAIN last_action_ts : k # key => last_action_ts'[k] = last_action_ts[k]

\* a full window has passed since the last proposal returned for the key
WindowElapsed(key) ==
    key \in DOMAIN issued_at /\ now - issued_at[key] >= Window(loop)

\* the candidate the instance selects for the snapshot it is passed
SelectedNow ==
    IF loop = "fast" THEN FastPlanOf[Val(current_state)].best
    ELSE IF SlowPlanOf[Val(current_state)].skip # "no" THEN None
    ELSE SlowPlanOf[Val(current_state)].best

MapFollowsProposals ==
    (FastCall \/ SlowCall) =>
        LET best == SelectedNow
        IN  /\ proposal' = None => last_action_ts' = last_action_ts
            /\ proposal' # None =>
                  WrittenOnly(<<Val(proposal').action, Val(proposal').target>>)
            /\ (/\ ~ global_kill_switch
                /\ best # None
                /\ WindowElapsed(TargetKey(Val(best)))) => proposal' # None

\* C28: in both controllers an entry of the rate-limit map is written
\* exactly when a proposal for its key is returned, and a call that returns
\* no proposal leaves the map unchanged: the map always holds, per key, the
\* time of the last proposal returned for it; once a full window has passed
\* since then, the next call selecting the key returns a proposal.
C28_MapWrittenOnlyWithProposal ==
    [][MapFollowsProposals /\ last_action_ts' = issued_at']_vars
\* a second proposal for a key, returned exactly one window after the first
C28_Witness ==
    /\ proposal # None
    /\ gap = Some(Window(loop))
    /\ last_action_ts[<<Val(proposal).action, Val(proposal).target>>] = now
    /\ now = Window(loop)

\* once the EMA has crossed the threshold under the sustained feed, the
\* state it has led to is kept
SettledStays ==
    /\ (feed = "high" /\ state = "persistent" /\ ema > Val(tau_persist))
          => (state' = "persistent" /\ ema' > Val(tau_persist))
    /\ (feed = "low" /\ state = "transient" /\ ema < Val(tau_fast) /\ history # <<>>)
          => (state' = "transient" /\ ema' < Val(tau_fast))

\* C30: thresholds set, 0 <= tau_fast <= tau_persist, 0 < alpha <= 1,
\* persist_ticks >= 1, from any reachable state: if every deviation fed from
\* some point on is at least a fixed d > tau_persist, the state becomes
\* persistent after finitely many updates and stays persistent; if every one
\* is at most a fixed d < tau_fast, it becomes and stays transient.
C30_SustainedFeedSettles ==
    /\ <>[](feed = "high" => state = "persistent")
    /\ <>[](feed = "low" => state = "transient")
    /\ [][SettledStays]_vars
\* a filter that was persistent when the low feed began and is transient now
C30_Witness ==
    /\ feed = "low"
    /\ state = "transient"
    /\ feed_from > 0
    /\ Len(history) > feed_from
    /\ history[feed_from].state = "persistent"
    /\ history[feed_from + 1].state = "persistent"
    /\ history[feed_from + 1].raw_deviation \in Fed("low")

====
